---- MODULE Spec2Model ----
(***************************************************************************)
(* A model of JSONStorage (src/src/JSONStorage.ts): one collection         *)
(* directory holding <id>.json documents and <id>.lock marker directories, *)
(* the callers' asynchronous create/read/update/delete calls cut at their  *)
(* filesystem awaits, and the collection's task queue through which the    *)
(* capped create is routed.                                                *)
(***************************************************************************)
EXTENDS Integers, Sequences, FiniteSets, TLC

(***************************************************************************)
(* Bounds of the model.                                                    *)
(***************************************************************************)
MaxCalls == 3
MaxTime == 1

Callers == {"c1", "c2", "c3"}
DocIds == {"f1"}
Uuids == {"u1", "u2"}
NoId == "-"
NoCap == -1
Caps == {0, 1, 2}

(***************************************************************************)
(* JavaScript values and field maps (Record<string, any>).                 *)
(***************************************************************************)
Str(s) == <<"s", s>>
Undefined == <<"undefined">>
Stats(birthtime, mtime) == <<"stats", birthtime, mtime>>
NoFields == [k \in {} |-> Undefined]

\* JavaScript truthiness, as used by `data._id || ...` and `if (data._id)`
Truthy(v) == v # Undefined /\ v # Str("")

\* obj[key]: a missing property reads as undefined
Get(obj, key) == IF key \in DOMAIN obj THEN obj[key] ELSE Undefined

\* { ...base, ...over }: later properties win
Spread(base, over) ==
    [k \in DOMAIN base \cup DOMAIN over |->
        IF k \in DOMAIN over THEN over[k] ELSE base[k]]

\* JSON.stringify(obj): the text holds a member for every property whose
\* value is not undefined; the text is modelled as its set of members
JSONStringify(obj) ==
    {<<k, obj[k]>> : k \in {j \in DOMAIN obj : obj[j] # Undefined}}

\* JSON.parse(text)
JSONParse(text) ==
    [k \in {m[1] : m \in text} |-> (CHOOSE m \in text : m[1] = k)[2]]

(***************************************************************************)
(* The inputs the callers draw from.                                       *)
(***************************************************************************)
DA == "a" :> Str("1")
DB == ("a" :> Str("2")) @@ ("b" :> Str("1"))
DS == ("a" :> Str("1")) @@ ("stats" :> Str("1"))
WithId(id, d) == ("_id" :> Str(id)) @@ d

CreateInputs == {DA, DS, WithId("f1", DA)}
UpdateInputs == {DA, DS, WithId("f1", DA)}

VARIABLES
    files,      \* id -> the document file <id>.json, for the ids that have one
    locks,      \* the ids whose marker directory <id>.lock exists
    calls,      \* caller -> its call in flight (or the settled one)
    queue,      \* this.subdirectoryQueues: name -> the tasks of that
                \* collection's queue (their callers) in submission order
    handle,     \* caller -> maxFileAmount of its handle (NoCap: none)
    usedUuids,  \* the ids crypto.randomUUID() has returned
    now,        \* the filesystem clock, in milliseconds
    ncalls,     \* calls issued so far
    dir,        \* the names of the collection directories that exist
    born,       \* history: the ids of the documents created, in creation order
    baseDirectory,  \* this.baseDirectory, set by the constructor
    singleton   \* JSONStorage.instance (0: null), the number of JSONStorage
                \* objects constructed, and the object each caller holds

vars ==
    <<files, locks, calls, queue, handle, usedUuids, now, ncalls, dir, born,
      baseDirectory, singleton>>

\* a document file: its text and timestamps; `by` and `input` record the
\* operation that wrote the text and the field map it was given
FileRec(text, birthtime, mtime, by, input) ==
    [content |-> text, birthtime |-> birthtime, mtime |-> mtime,
     by |-> by, input |-> input]

Exists(id) == id \in DOMAIN files

\* mutant: the write resolves without the file having been written
PutFileLost(id, rec) == files

PutFile(id, rec) ==
    [i \in DOMAIN files \cup {id} |-> IF i = id THEN rec ELSE files[i]]

\* mutant: the unlink leaves the file in place
RemoveFileKept(id) == files

RemoveFile(id) == [i \in DOMAIN files \ {id} |-> files[i]]

\* connect(): no options given
NoOptions == [form |-> "none"]

NoResult == [kind |-> "-", id |-> NoId, pathId |-> NoId, doc |-> NoFields]

Idle ==
    [op |-> "-", id |-> NoId, data |-> NoFields, pc |-> "idle", err |-> "-",
     res |-> NoResult, task |-> "-", listed |-> {}, victims |-> <<>>,
     uuid |-> NoId, uuid2 |-> NoId, meta |-> Undefined,
     seen |-> "-", seenInput |-> NoFields, before |-> <<>>,
     entries |-> {}, docs |-> {}, coll |-> "A", options |-> NoOptions,
     query |-> <<>>, order |-> <<>>, found |-> <<>>, kept |-> <<>>,
     sorted |-> <<>>, out |-> <<>>,
     report |-> [amount |-> 0, createdAsc |-> <<>>, updatedAsc |-> <<>>]]

Ok(id, pathId, doc) == [kind |-> "ok", id |-> id, pathId |-> pathId, doc |-> doc]
Failure(kind) == [kind |-> kind, id |-> NoId, pathId |-> NoId, doc |-> NoFields]

InFlight(c) == calls[c].pc \notin {"idle", "done"}

\* the state of the collection before any caller acts: f1 was stored by an
\* earlier create({_id: "f1", a: "2", b: "1"})
InitFiles ==
    "f1" :> FileRec(JSONStringify(WithId("f1", DB)), 0, 0, "create", WithId("f1", DB))

(***************************************************************************)
(* The calls of the handle returned by connect (lines 94-128).  A call is  *)
(* cut into steps at its awaits; each step is one filesystem operation and *)
(* the synchronous code that follows it.                                   *)
(***************************************************************************)

\* data._id || crypto.randomUUID()
ResolveId(data, uuid) ==
    IF Truthy(Get(data, "_id")) THEN Get(data, "_id")[2] ELSE uuid

\* a caller issues its next call once the previous one has settled
CanCall(c) == calls[c].pc \in {"idle", "done"} /\ ncalls < MaxCalls

\* the uuids a create may draw: none when data carries a truthy _id
FreshFor(data) ==
    IF Truthy(Get(data, "_id")) THEN {NoId} ELSE Uuids \ usedUuids

\* create(subdirectory, data) up to its first await, fs.mkdir(lockPath)
BeginCreate(r, data, uuid) ==
    [r EXCEPT !.op = "create", !.data = data, !.uuid = uuid,
              !.id = ResolveId(data, uuid), !.pc = "mkdir", !.err = "-"]

\* delete(subdirectory, fileId) up to its first await, fs.mkdir(lockPath)
BeginDelete(r, id) ==
    [r EXCEPT !.op = "delete", !.id = id, !.pc = "mkdir", !.err = "-"]

\* history: the stored text of id when a create is called (<<>>: no document)
StoredAt(id) == IF Exists(id) THEN <<files[id].content>> ELSE <<>>

\* crudInterface.create on a handle without maxFileAmount: this.create
CallCreate(c, data) ==
    /\ CanCall(c)
    /\ handle[c] = NoCap
    /\ \E u \in FreshFor(data) :
        /\ calls' = [calls EXCEPT ![c] =
              [BeginCreate(Idle, data, u) EXCEPT
                  !.before = StoredAt(ResolveId(data, u))]]
        /\ usedUuids' = usedUuids \cup ({u} \ {NoId})
    /\ ncalls' = ncalls + 1
    /\ UNCHANGED <<files, locks, queue, handle, now, dir, born, baseDirectory, singleton>>

\* the guard of update: if (data._id) throw
UpdateRejects(data) == Truthy(Get(data, "_id"))

\* update(subdirectory, fileId, data) past its guard, up to fs.mkdir(lockPath)
BeginUpdate(id, data) ==
    [Idle EXCEPT !.op = "update", !.id = id, !.data = data, !.pc = "mkdir"]

\* crudInterface.update: this.update up to its first await
CallUpdate(c, id, data) ==
    /\ CanCall(c)
    /\ calls' = [calls EXCEPT ![c] =
          IF UpdateRejects(data)
          THEN [Idle EXCEPT !.op = "update", !.id = id, !.data = data,
                            !.pc = "done", !.res = Failure("InvalidArgument")]
          ELSE BeginUpdate(id, data)]
    /\ ncalls' = ncalls + 1
    /\ UNCHANGED <<files, locks, queue, handle, usedUuids, now, dir, born,
                 baseDirectory, singleton>>

\* crudInterface.delete: this.delete up to its first await
CallDelete(c, id) ==
    /\ CanCall(c)
    /\ calls' = [calls EXCEPT ![c] = BeginDelete(Idle, id)]
    /\ ncalls' = ncalls + 1
    /\ UNCHANGED <<files, locks, queue, handle, usedUuids, now, dir, born,
                 baseDirectory, singleton>>

\* crudInterface.read: this.read up to its first await, fs.stat(path)
CallRead(c, id) ==
    /\ CanCall(c)
    /\ calls' = [calls EXCEPT ![c] =
          [Idle EXCEPT !.op = "read", !.id = id, !.pc = "stat"]]
    /\ ncalls' = ncalls + 1
    /\ UNCHANGED <<files, locks, queue, handle, usedUuids, now, dir, born,
                 baseDirectory, singleton>>

\* the eviction loop of createWithMaxAmountAllowed after one victim's delete
\* has settled, whatever its outcome (the catch block is empty): the next
\* victim's delete, or this.create(subdirectory, data) after the last one
\* mutant: after the last victim the task calls the create of the handle,
\* which hands a task to the queue that is running this one
AfterVictimEnqueues(r) ==
    IF Len(r.victims) > 1
    THEN [BeginDelete(r, r.victims[2]) EXCEPT !.victims = Tail(r.victims)]
    ELSE [r EXCEPT !.op = "create", !.pc = "queued", !.victims = <<>>]

AfterVictim(r) ==
    IF Len(r.victims) > 1
    THEN [BeginDelete(r, r.victims[2]) EXCEPT !.victims = Tail(r.victims)]
    ELSE [BeginCreate(r, r.data, r.uuid) EXCEPT !.victims = <<>>]

\* mutant: a task that rejects stays at the head of its queue
DequeueFulfilled(c) ==
    [n \in DOMAIN queue |->
        SelectSeq(queue[n], LAMBDA x : x # c \/ calls'[c].res.kind # "ok")]

\* the queue drops the task of caller c once it has settled
Dequeue(c) == [n \in DOMAIN queue |-> SelectSeq(queue[n], LAMBDA x : x # c)]

\* mutant: the failure of a victim's delete is rethrown by the task
EndOpRethrows(c, res) ==
    IF calls[c].task = "capped" /\ calls[c].op = "delete" /\ res.kind = "ok"
    THEN /\ calls' = [calls EXCEPT ![c] = AfterVictim(calls[c])]
         /\ UNCHANGED queue
    ELSE /\ calls' = [calls EXCEPT ![c].pc = "done", ![c].res = res]
         /\ queue' = Dequeue(c)

\* create, update or delete of caller c ends with result res: inside the
\* queued task a victim's delete continues the loop, everything else settles
\* the call (and, for a queued task, lets the queue go on to the next task)
EndOp(c, res) ==
    IF calls[c].task = "capped" /\ calls[c].op = "delete"
    THEN /\ calls' = [calls EXCEPT ![c] = AfterVictim(calls[c])]
         /\ UNCHANGED queue
    ELSE /\ calls' = [calls EXCEPT ![c].pc = "done", ![c].res = res]
         /\ queue' = Dequeue(c)

\* mutant: the marker is made with {recursive: true}, which never fails
AcquireLockRecursive(id) == locks' = locks \cup {id}

\* fs.mkdir(lockPath): creates the marker, or fails with EEXIST when it exists
AcquireLock(id) == id \notin locks /\ locks' = locks \cup {id}

\* mutant: fs.mkdir(lockPath) is awaited inside the try block, so that the
\* catch block of the refused call removes the marker
LockRefusedInTry(id) == locks' = locks \ {id}

\* fs.mkdir(lockPath) is awaited before the try block: its rejection leaves
\* the call at once, the catch block and its fs.rm do not run
LockRefused(id) == locks' = locks

Mkdir(c) ==
    /\ calls[c].pc = "mkdir"
    /\ \/ /\ AcquireLock(calls[c].id)
          /\ calls' = [calls EXCEPT ![c].pc =
                IF calls[c].op = "create" THEN "write" ELSE "access"]
          /\ UNCHANGED queue
       \/ /\ calls[c].id \in locks
          /\ EndOp(c, Failure("AlreadyLocked"))
          /\ LockRefused(calls[c].id)
    /\ UNCHANGED <<files, handle, usedUuids, now, ncalls, dir, born, baseDirectory, singleton>>

\* mutant: update and delete without the existence check
AccessSkipped(id) == TRUE

\* fs.access(path, F_OK): resolves when the document file exists
AccessOk(id) == Exists(id)

\* the existence check of update and delete; ENOENT goes to the catch block
Access(c) ==
    /\ calls[c].pc = "access"
    /\ calls' = [calls EXCEPT ![c] =
          IF AccessOk(calls[c].id)
          THEN [calls[c] EXCEPT !.pc =
                    IF calls[c].op = "update" THEN "write" ELSE "unlink"]
          ELSE [calls[c] EXCEPT !.pc = "release", !.err = "NotFound"]]
    /\ UNCHANGED <<files, locks, queue, handle, usedUuids, now, ncalls, dir, born,
                 baseDirectory, singleton>>

\* mutant: create writes with flag 'w'
WxIgnored(id) == FALSE

\* flag 'wx' of create's fs.writeFile: EEXIST when the file exists
WxRefuses(id) == Exists(id)

\* the file create writes: JSON.stringify({...data}), born now
CreatedFile(data) ==
    FileRec(JSONStringify(Spread(NoFields, data)), now, now, "create", data)

\* mutant: update merges the new fields into the stored ones
UpdatedFileMerged(id, data) ==
    FileRec(JSONStringify(IF Exists(id)
                          THEN Spread(JSONParse(files[id].content), data)
                          ELSE data),
            IF Exists(id) THEN files[id].birthtime ELSE now, now,
            "update", data)

\* the file update writes with flag 'w': JSON.stringify(data) replaces the
\* whole text; the file keeps its birthtime (it is created when missing)
UpdatedFile(id, data) ==
    FileRec(JSONStringify(data),
            IF Exists(id) THEN files[id].birthtime ELSE now, now,
            "update", data)

\* history: a step that creates a document file appends its id to born
Born ==
    born' = IF DOMAIN files' \subseteq DOMAIN files THEN born
            ELSE Append(born, CHOOSE id \in DOMAIN files' : id \notin DOMAIN files)

\* mutant: the catch block of create also removes the file at the path it
\* could not write
WriteRefusedUnlinks(id) == files' = RemoveFile(id)

\* fs.writeFile with flag 'wx' rejects with EEXIST before anything is
\* written, and the catch block touches the marker only
WriteRefused(id) == files' = files

\* fs.writeFile(path, ...) of create (flag 'wx') and of update (flag 'w')
WriteFile(c) ==
    /\ calls[c].pc = "write"
    /\ IF calls[c].op = "create" /\ WxRefuses(calls[c].id)
       THEN /\ calls' = [calls EXCEPT ![c].pc = "release",
                                      ![c].err = "AlreadyExists"]
            /\ WriteRefused(calls[c].id)
       ELSE /\ calls' = [calls EXCEPT ![c].pc = "release"]
            /\ files' = PutFile(calls[c].id,
                  IF calls[c].op = "create"
                  THEN CreatedFile(calls[c].data)
                  ELSE UpdatedFile(calls[c].id, calls[c].data))
    /\ Born
    /\ UNCHANGED <<locks, queue, handle, usedUuids, now, ncalls, dir, baseDirectory, singleton>>

\* fs.writeFile rejects for a reason of the platform (ENOSPC, EACCES, ...)
WriteFileFails(c) ==
    /\ calls[c].pc = "write"
    /\ calls' = [calls EXCEPT ![c].pc = "release", ![c].err = "FsFailure"]
    /\ UNCHANGED <<files, locks, queue, handle, usedUuids, now, ncalls, dir, born,
                 baseDirectory, singleton>>

\* fs.unlink(path) in delete
Unlink(c) ==
    /\ calls[c].pc = "unlink"
    /\ IF Exists(calls[c].id)
       THEN /\ files' = RemoveFile(calls[c].id)
            /\ calls' = [calls EXCEPT ![c].pc = "release"]
       ELSE /\ calls' = [calls EXCEPT ![c].pc = "release",
                                      ![c].err = "NotFound"]
            /\ UNCHANGED files
    /\ UNCHANGED <<locks, queue, handle, usedUuids, now, ncalls, dir, born,
                 baseDirectory, singleton>>

\* mutant: the catch block rethrows without removing the marker
RemoveLockInTryOnly(r) == locks' = IF r.err = "-" THEN locks \ {r.id} ELSE locks

\* mutant: the try block returns without removing the marker
RemoveLockInCatchOnly(r) == locks' = IF r.err = "-" THEN locks ELSE locks \ {r.id}

\* fs.rm(lockPath, {recursive: true}): in the try block after the primary
\* step succeeded, in the catch block after it failed
RemoveLock(r) == locks' = locks \ {r.id}

\* what create, update and delete return: {_id, path} or nothing
Returned(r) ==
    IF r.op = "delete" THEN Ok(NoId, NoId, NoFields) ELSE Ok(r.id, r.id, NoFields)

\* the marker is removed and the call returns, or rethrows the caught error
Release(c) ==
    /\ calls[c].pc = "release"
    /\ RemoveLock(calls[c])
    /\ EndOp(c, IF calls[c].err = "-" THEN Returned(calls[c])
                ELSE Failure(calls[c].err))
    /\ UNCHANGED <<files, handle, usedUuids, now, ncalls, dir, born, baseDirectory, singleton>>

\* fs.stat(path) in read
Stat(c) ==
    /\ calls[c].pc = "stat"
    /\ calls' = [calls EXCEPT ![c] =
          IF Exists(calls[c].id)
          THEN [calls[c] EXCEPT !.pc = "readFile",
                    !.meta = Stats(files[calls[c].id].birthtime,
                                   files[calls[c].id].mtime)]
          ELSE [calls[c] EXCEPT !.pc = "done", !.res = Failure("NotFound")]]
    /\ UNCHANGED <<files, locks, queue, handle, usedUuids, now, ncalls, dir, born,
                 baseDirectory, singleton>>

\* mutant: read returns the parsed text with the id only
ReadDocumentNoStats(text, id, stats) ==
    Spread(JSONParse(text), "_id" :> Str(id))

\* the document read returns: {...JSON.parse(data), _id: fileId, stats}
ReadDocument(text, id, stats) ==
    Spread(JSONParse(text), ("_id" :> Str(id)) @@ ("stats" :> stats))

\* fs.readFile(path) in read, and the return
ReadFile(c) ==
    /\ calls[c].pc = "readFile"
    /\ calls' = [calls EXCEPT ![c] =
          IF Exists(calls[c].id)
          THEN [calls[c] EXCEPT !.pc = "done",
                    !.res = Ok(NoId, NoId,
                               ReadDocument(files[calls[c].id].content,
                                            calls[c].id, calls[c].meta)),
                    !.seen = files[calls[c].id].by,
                    !.seenInput = files[calls[c].id].input]
          ELSE [calls[c] EXCEPT !.pc = "done", !.res = Failure("NotFound")]]
    /\ UNCHANGED <<files, locks, queue, handle, usedUuids, now, ncalls, dir, born,
                 baseDirectory, singleton>>

(***************************************************************************)
(* all(): the directory listing and the names of its entries.  A name is   *)
(* the sequence of its pieces, every occurrence of ".json" and the suffix  *)
(* ".lock" being a piece of its own, so that the string operations on      *)
(* names are computed and not assumed.                                     *)
(***************************************************************************)

\* the ids the callers use, and the strings names can be turned into
KnownIds == {"f1", "f2", "f3", "f4", "u1", "u2", "x.json.y", "x.y.json"}

\* an id as the sequence of its pieces
Segments(id) ==
    IF id = "x.json.y" THEN <<"x", ".json", ".y">>
    ELSE IF id = "x.y.json" THEN <<"x", ".y", ".json">>
    ELSE <<id>>

\* the string a sequence of pieces spells
Text(segs) == CHOOSE id \in KnownIds : Segments(id) = segs

\* `${_id}.json` and `${_id}.lock`
FileName(id) == Segments(id) \o <<".json">>
LockName(id) == Segments(id) \o <<".lock">>

\* fs.readdir(dirPath, {withFileTypes: true}): a regular file per document,
\* a directory per marker
DirEntries ==
    {[name |-> FileName(id), isFile |-> TRUE] : id \in DOMAIN files}
        \cup {[name |-> LockName(id), isFile |-> FALSE] : id \in locks}

\* name.endsWith(suffix)
EndsWith(name, suffix) == Len(name) > 0 /\ name[Len(name)] = suffix

\* fileEntries.filter(file => file.isFile() && file.name.endsWith('.json'))
JsonFiles == {e \in DirEntries : e.isFile /\ EndsWith(e.name, ".json")}

\* name.replace(what, ''): the first occurrence of what is removed
ReplaceFirst(name, what) ==
    LET hits == {i \in DOMAIN name : name[i] = what}
    IN  IF hits = {} THEN name
        ELSE LET k == CHOOSE i \in hits : \A j \in hits : i <= j
             IN  SubSeq(name, 1, k - 1) \o SubSeq(name, k + 1, Len(name))

\* the id whose document file has this name, if any
FilesNamed(name) == {id \in DOMAIN files : FileName(id) = name}

\* an entry of the result of all():
\* {...data, _id: file.name.replace('.json', ''), stats}
AllDocument(text, name, stats) ==
    Spread(JSONParse(text),
           ("_id" :> Str(Text(ReplaceFirst(name, ".json")))) @@ ("stats" :> stats))

\* crudInterface.all: this.all up to its first await, fs.readdir(dirPath)
CallAll(c) ==
    /\ CanCall(c)
    /\ calls' = [calls EXCEPT ![c] =
          [Idle EXCEPT !.op = "all", !.pc = "allReaddir"]]
    /\ ncalls' = ncalls + 1
    /\ UNCHANGED <<files, locks, queue, handle, usedUuids, now, dir, born,
                 baseDirectory, singleton>>

\* fs.readdir resolves and the entries are filtered
AllReaddir(c) ==
    /\ calls[c].pc = "allReaddir"
    /\ calls' = [calls EXCEPT ![c].pc = "allRead",
                              ![c].entries = {e.name : e \in JsonFiles}]
    /\ UNCHANGED <<files, locks, queue, handle, usedUuids, now, ncalls, dir, born,
                 baseDirectory, singleton>>

\* mutant: a listed file that is gone is passed over
MissingNone(names) == {}

\* the listed names whose file is gone: fs.readFile rejects with ENOENT
Missing(names) == {n \in names : FilesNamed(n) = {}}

\* fs.readFile, JSON.parse and fs.stat of every listed file; Promise.all
\* rejects with ENOENT when one of them is gone
AllRead(c) ==
    /\ calls[c].pc = "allRead"
    /\ calls' = [calls EXCEPT ![c] =
          IF Missing(calls[c].entries) = {}
          THEN [calls[c] EXCEPT !.pc = "done",
                    !.res = Ok(NoId, NoId, NoFields),
                    !.docs = {LET f == files[CHOOSE id \in FilesNamed(n) : TRUE]
                              IN  AllDocument(f.content, n,
                                              Stats(f.birthtime, f.mtime)) :
                              n \in {m \in calls[c].entries : FilesNamed(m) # {}}}]
          ELSE [calls[c] EXCEPT !.pc = "done", !.res = Failure("NotFound")]]
    /\ UNCHANGED <<files, locks, queue, handle, usedUuids, now, ncalls, dir, born,
                 baseDirectory, singleton>>

(***************************************************************************)
(* connect and the capped create: both hand a task to the collection's     *)
(* queue.  AsyncTasksQueue is imported from a package; it runs the tasks   *)
(* one at a time in the order of the enqueue calls.                        *)
(***************************************************************************)

\* mutant: no special case for maxFileAmount 0
ZeroCapIgnored(max) == FALSE

\* maxFileAmount === 0
ZeroCap(max) == max = 0

\* the queues of a storage through which a handle of collection A was made
OneQueue == "A" :> <<>>

\* the process has constructed one JSONStorage, which JSONStorage.instance
\* refers to and every caller holds
OneStorage == [instance |-> 1, made |-> 1, held |-> [c \in Callers |-> 1]]

\* the entry of the map subdirectoryQueues of the JSONStorage object obj
\* under key: the maps of all the objects are kept in one function, the
\* entries of the first object under the key itself
MapKey(obj, key) ==
    IF obj = 1 THEN key
    ELSE IF obj = 2 THEN "2:A" ELSE IF obj = 3 THEN "3:A" ELSE "4:A"

\* mutant: one queue for all the collections of the storage
QueueKeyShared(subdirectory) == "*"

\* the key of a collection's queue in this.subdirectoryQueues
QueueKey(subdirectory) == subdirectory

\* queue.enqueue(task) on the queue of the map q under the key name: the
\* task joins the end of that queue
Enqueue(q, name, c) == queue' = [q EXCEPT ![name] = Append(@, c)]

\* crudInterface.create on a handle with maxFileAmount:
\* createWithMaxAmountAllowed, which only enqueues the task
CallCreateCapped(c, data) ==
    /\ CanCall(c)
    /\ handle[c] # NoCap
    /\ \E u \in FreshFor(data) :
        \E u2 \in (IF ZeroCap(handle[c]) THEN FreshFor(data) \ ({u} \ {NoId}) ELSE {NoId}) :
            /\ calls' = [calls EXCEPT ![c] =
                  [Idle EXCEPT !.op = "create", !.task = "capped",
                               !.data = data, !.uuid = u, !.uuid2 = u2,
                               !.id = ResolveId(data, u), !.pc = "queued",
                               !.before = StoredAt(ResolveId(data, u))]]
            /\ usedUuids' = usedUuids \cup ({u, u2} \ {NoId})
    /\ Enqueue(queue, MapKey(singleton.held[c], QueueKey(Idle.coll)), c)
    /\ ncalls' = ncalls + 1
    /\ UNCHANGED <<files, locks, handle, now, dir, born, baseDirectory, singleton>>

\* the options connect is called with: none, a string (the name), or an
\* object whose directory is the name
StringOptions(name) == [form |-> "string", directory |-> name]
ObjectOptions(name) == [form |-> "object", directory |-> name]
CapOptions(name, max) ==
    [form |-> "object", directory |-> name, maxFileAmount |-> max]

\* !options
OptionsMissing(options) ==
    \/ options.form = "none"
    \/ options.form = "string" /\ ~Truthy(options.directory)

\* typeof options === 'string' ? options : options.directory
SubdirectoryOf(options) ==
    IF options.form = "none" THEN Undefined ELSE options.directory

\* mutant: the handle forgets the maxFileAmount it was made with
MaxFileAmountDropped(options) == NoCap

\* typeof options === 'string' ? undefined : options.maxFileAmount
MaxFileAmountOf(options) ==
    IF options.form = "object" /\ "maxFileAmount" \in DOMAIN options
    THEN options.maxFileAmount
    ELSE NoCap

\* the crudInterface connect returns to caller c: its create closes over
\* the maxFileAmount of this connect call
CrudInterface(c) ==
    handle' = [handle EXCEPT ![c] = MaxFileAmountOf(calls[c].options)]

\* !this.baseDirectory, checked once the options are there
RootMissing(options) == ~Truthy(Str(baseDirectory))

\* mutant: the name is not checked
NameAccepted(subdirectory) == FALSE

\* !subdirectory
NameMissing(subdirectory) == ~Truthy(subdirectory)

\* `${subdirectory}`: the name as part of a path and as key of the map
NameKey(subdirectory) ==
    IF subdirectory = Undefined THEN "undefined" ELSE subdirectory[2]

\* mutant: connect always sets a new AsyncTasksQueue for the name
RegisteredAnew(name) ==
    [n \in DOMAIN queue \cup {name} |-> IF n = name THEN <<>> ELSE queue[n]]

\* if (!this.subdirectoryQueues.has(subdirectory)) set(subdirectory, new
\* AsyncTasksQueue())
Registered(name) ==
    IF name \in DOMAIN queue THEN queue ELSE queue @@ (name :> <<>>)

\* connect(options) up to queue.enqueue: the three guards, the queue of the
\* collection, and the access / mkdir of its directory handed to that queue
Connect(c, options) ==
    /\ CanCall(c)
    /\ LET subdirectory == SubdirectoryOf(options)
           call == [Idle EXCEPT !.op = "connect", !.options = options]
           throw(message) ==
               /\ calls' = [calls EXCEPT ![c] =
                     [call EXCEPT !.pc = "done", !.res = Failure(message)]]
               /\ UNCHANGED queue
       IN  IF OptionsMissing(options) THEN throw("Subdirectory is required")
           ELSE IF RootMissing(options) THEN throw("Directory is not set")
           ELSE IF NameMissing(subdirectory) THEN throw("Subdirectory is required")
           ELSE /\ calls' = [calls EXCEPT ![c] =
                      [call EXCEPT !.task = "connect", !.pc = "queued",
                                   !.coll = NameKey(subdirectory)]]
                /\ LET key == MapKey(singleton.held[c],
                                      QueueKey(NameKey(subdirectory)))
                   IN  Enqueue(Registered(key), key, c)
    /\ ncalls' = ncalls + 1
    /\ UNCHANGED <<files, locks, handle, usedUuids, now, dir, born, baseDirectory, singleton>>

\* connect with the options of the caller's handle
CallConnect(c) ==
    Connect(c, IF handle[c] = NoCap THEN ObjectOptions(Str("A"))
               ELSE CapOptions(Str("A"), handle[c]))

\* mutant: each call takes a new AsyncTasksQueue of its own
OwnQueue(c) == <<c>>

\* this.subdirectoryQueues.get(subdirectory): the queue the task of caller
\* c was handed to is the one queue of the collection
TaskQueue(c) == queue[MapKey(singleton.held[c], QueueKey(calls[c].coll))]

\* the queue runs the task at its head, and no other
MayStart(c) == TaskQueue(c) # <<>> /\ Head(TaskQueue(c)) = c

\* the task starts: up to its first await.  With maxFileAmount 0 the capped
\* create returns {_id, path} at once, drawing a uuid for each of the two
StartTask(c) ==
    /\ calls[c].pc = "queued"
    /\ MayStart(c)
    /\ IF calls[c].task = "capped" /\ ZeroCap(handle[c])
       THEN /\ calls' = [calls EXCEPT ![c].pc = "done",
                  ![c].res = Ok(ResolveId(calls[c].data, calls[c].uuid),
                                ResolveId(calls[c].data, calls[c].uuid2),
                                NoFields)]
            /\ queue' = Dequeue(c)
       ELSE /\ calls' = [calls EXCEPT ![c].pc =
                  IF calls[c].task = "connect" THEN "dirAccess" ELSE "readdir"]
            /\ UNCHANGED queue
    /\ UNCHANGED <<files, locks, handle, usedUuids, now, ncalls, dir, born,
                 baseDirectory, singleton>>

\* connect's task: fs.access(fullDirectory); the handle is returned when it
\* resolves, fs.mkdir is next when it rejects
DirAccess(c) ==
    /\ calls[c].pc = "dirAccess"
    /\ IF calls[c].coll \in dir
       THEN /\ calls' = [calls EXCEPT ![c].pc = "done",
                                      ![c].res = Ok(NoId, NoId, NoFields)]
            /\ queue' = Dequeue(c)
            /\ CrudInterface(c)
       ELSE /\ calls' = [calls EXCEPT ![c].pc = "dirMkdir"]
            /\ UNCHANGED <<queue, handle>>
    /\ UNCHANGED <<files, locks, usedUuids, now, ncalls, dir, born,
                 baseDirectory, singleton>>

\* connect's task: fs.mkdir(fullDirectory, {recursive: true}) makes the
\* directory when it is missing, and the handle is returned
DirMkdir(c) ==
    /\ calls[c].pc = "dirMkdir"
    /\ dir' = dir \cup {calls[c].coll}
    /\ calls' = [calls EXCEPT ![c].pc = "done",
                              ![c].res = Ok(NoId, NoId, NoFields)]
    /\ queue' = Dequeue(c)
    /\ CrudInterface(c)
    /\ UNCHANGED <<files, locks, usedUuids, now, ncalls, born, baseDirectory, singleton>>

\* jsonFiles.length >= maxFileAmount
AtLimit(n, max) == n >= max

\* mutant: one victim too few
FilesToRemoveLess(n, max) == n - max

\* filesToRemove = jsonFiles.length - maxFileAmount + 1
FilesToRemove(n, max) == n - max + 1

\* fs.readdir(dirPath) and the filter on '.json' files: the ids that have a
\* document file; below the limit this.create follows at once
Readdir(c) ==
    /\ calls[c].pc = "readdir"
    /\ calls' = [calls EXCEPT ![c] =
          IF AtLimit(Cardinality(DOMAIN files), handle[c])
          THEN [calls[c] EXCEPT !.pc = "statAll", !.listed = DOMAIN files]
          ELSE BeginCreate(calls[c], calls[c].data, calls[c].uuid)]
    /\ UNCHANGED <<files, locks, queue, handle, usedUuids, now, ncalls, dir, born,
                 baseDirectory, singleton>>

\* the id eviction deletes for a listed file:
\* fileData._id || file.name.replace('.json', '')
VictimId(f) ==
    LET fileData == JSONParse(files[f].content)
    IN  IF Truthy(Get(fileData, "_id")) THEN Get(fileData, "_id")[2]
        ELSE Text(ReplaceFirst(FileName(f), ".json"))

\* birthtime.getTime() of a listed file: whole milliseconds
BirthMs(f) == files[f].birthtime

\* [...fileStats].sort((a, b) => a.birthtime - b.birthtime): the sort is
\* stable and fs.readdir returns the entries in no particular order, so
\* files of equal birthtime come out in any order
CreatedAsc(listed) ==
    {s \in [1..Cardinality(listed) -> listed] :
        /\ \A i, j \in DOMAIN s : i < j => s[i] # s[j] /\ BirthMs(s[i]) <= BirthMs(s[j])}

\* fs.stat and fs.readFile of every listed file (Promise.all rejects when a
\* file is gone), the sort, and the first delete of the eviction loop
StatAll(c) ==
    /\ calls[c].pc = "statAll"
    /\ IF calls[c].listed \subseteq DOMAIN files
       THEN /\ \E s \in CreatedAsc(calls[c].listed) :
                LET k == FilesToRemove(Cardinality(calls[c].listed), handle[c])
                    n == IF k <= Len(s) THEN k ELSE Len(s)
                    victims == [i \in 1..n |-> VictimId(s[i])]
                IN  calls' = [calls EXCEPT ![c] =
                        IF n >= 1
                        THEN [BeginDelete(calls[c], victims[1]) EXCEPT
                                 !.victims = victims]
                        ELSE BeginCreate(calls[c], calls[c].data, calls[c].uuid)]
            /\ UNCHANGED queue
       ELSE /\ calls' = [calls EXCEPT ![c].pc = "done",
                                      ![c].res = Failure("NotFound")]
            /\ queue' = Dequeue(c)
    /\ UNCHANGED <<files, locks, handle, usedUuids, now, ncalls, dir, born,
                 baseDirectory, singleton>>

\* a millisecond passes.  Only fs.writeFile reads the clock (the birthtime
\* and mtime of the file it writes), so the boundary is placed where a
\* pending write can observe it
Tick ==
    /\ now < MaxTime
    /\ \E c \in Callers : calls[c].pc = "write"
    /\ now' = now + 1
    /\ UNCHANGED <<files, locks, calls, queue, handle, usedUuids, ncalls, dir, born,
                 baseDirectory, singleton>>

(***************************************************************************)
(* Specification SpecCap: callers sharing one handle of an empty           *)
(* collection capped at maxFileAmount issue create (and connect) calls.    *)
(***************************************************************************)
CapInputs == {WithId("f1", DA), WithId("f2", DA), DA}
CapCallers == {"c1", "c2"}

InitCap ==
    /\ files = NoFields
    /\ locks = {}
    /\ calls = [c \in Callers |-> Idle]
    /\ queue = OneQueue
    /\ \E max \in Caps : handle = [c \in Callers |-> max]
    /\ usedUuids = {}
    /\ now = 0
    /\ ncalls = 0
    /\ dir = {"A"}
    /\ born = <<>>
    /\ baseDirectory = "root"
    /\ singleton = OneStorage

NextCap ==
    \/ \E c \in CapCallers :
        \/ \E d \in CapInputs : CallCreateCapped(c, d)
        \/ CallConnect(c)
        \/ StartTask(c)
        \/ DirAccess(c)
        \/ Readdir(c)
        \/ StatAll(c)
        \/ Mkdir(c)
        \/ Access(c)
        \/ WriteFile(c)
        \/ WriteFileFails(c)
        \/ Unlink(c)
        \/ Release(c)
    \/ Tick

SpecCap == InitCap /\ [][NextCap]_vars

\* a step of the call of caller c: a filesystem operation the call awaits
\* completes, or the queue starts its task
CallStep(c) ==
    \/ StartTask(c)
    \/ DirAccess(c)
    \/ Readdir(c)
    \/ StatAll(c)
    \/ Mkdir(c)
    \/ Access(c)
    \/ WriteFile(c)
    \/ WriteFileFails(c)
    \/ Unlink(c)
    \/ Release(c)

\* the calls of SpecCap, without the passing of time
NextCapCalls ==
    \E c \in CapCallers :
        \/ \E d \in CapInputs : CallCreateCapped(c, d)
        \/ CallConnect(c)
        \/ CallStep(c)

\* the capped collection with the fairness of the event loop: a pending
\* filesystem operation completes and a task that may start is started
SpecCapFair ==
    /\ InitCap
    /\ [][NextCapCalls]_vars
    /\ \A c \in CapCallers : WF_vars(CallStep(c))

(***************************************************************************)
(* Specification Spec: callers sharing one uncapped collection in which    *)
(* f1 is stored issue create, read, update and delete calls concurrently.  *)
(***************************************************************************)
Init ==
    /\ files = InitFiles
    /\ locks = {}
    /\ calls = [c \in Callers |-> Idle]
    /\ queue = OneQueue
    /\ handle = [c \in Callers |-> NoCap]
    /\ usedUuids = {}
    /\ now = 0
    /\ ncalls = 0
    /\ dir = {"A"}
    /\ born = <<>>
    /\ baseDirectory = "root"
    /\ singleton = OneStorage

Next ==
    \E c \in Callers :
        \/ \E d \in CreateInputs : CallCreate(c, d)
        \/ \E id \in DocIds, d \in UpdateInputs : CallUpdate(c, id, d)
        \/ \E id \in DocIds : CallDelete(c, id)
        \/ \E id \in DocIds \cup usedUuids : CallRead(c, id)
        \/ Mkdir(c)
        \/ Access(c)
        \/ WriteFile(c)
        \/ WriteFileFails(c)
        \/ Unlink(c)
        \/ Release(c)
        \/ Stat(c)
        \/ ReadFile(c)

Spec == Init /\ [][Next]_vars

(***************************************************************************)
(* Specification SpecDocs: two callers of one uncapped collection in which *)
(* f1 is stored create, update, delete, read and list documents; among the *)
(* inputs are an update carrying an empty identity field and a document    *)
(* whose id contains ".json".                                              *)
(***************************************************************************)
DocsCallers == {"c1", "c2"}
DocsCreateInputs == {WithId("f1", DA), WithId("x.json.y", DA)}
DocsUpdateInputs == {DA, WithId("", DA), WithId("f1", DA)}

NextDocs ==
    \E c \in DocsCallers :
        \/ \E d \in DocsCreateInputs : CallCreate(c, d)
        \/ \E d \in DocsUpdateInputs : CallUpdate(c, "f1", d)
        \/ CallDelete(c, "f1")
        \/ CallRead(c, "f1")
        \/ CallAll(c)
        \/ Mkdir(c)
        \/ Access(c)
        \/ WriteFile(c)
        \/ WriteFileFails(c)
        \/ Unlink(c)
        \/ Release(c)
        \/ Stat(c)
        \/ ReadFile(c)
        \/ AllReaddir(c)
        \/ AllRead(c)

SpecDocs == Init /\ [][NextDocs]_vars

(***************************************************************************)
(* Specification SpecConnect: the callers of one storage, whose root may   *)
(* be empty, call connect for the collections A and B, none of which has a *)
(* directory or a queue yet, and with an empty or a missing name.          *)
(***************************************************************************)
ConnectOptions ==
    {NoOptions, StringOptions(Str("")), StringOptions(Str("A")),
     ObjectOptions(Undefined), ObjectOptions(Str("")),
     ObjectOptions(Str("A")), ObjectOptions(Str("B"))}

InitConnect ==
    /\ files = NoFields
    /\ locks = {}
    /\ calls = [c \in Callers |-> Idle]
    /\ queue = <<>>
    /\ handle = [c \in Callers |-> NoCap]
    /\ usedUuids = {}
    /\ now = 0
    /\ ncalls = 0
    /\ dir = {}
    /\ born = <<>>
    /\ baseDirectory \in {"", "root"}
    /\ singleton = OneStorage

NextConnect ==
    \E c \in Callers :
        \/ \E o \in ConnectOptions : Connect(c, o)
        \/ StartTask(c)
        \/ DirAccess(c)
        \/ DirMkdir(c)

SpecConnect == InitConnect /\ [][NextConnect]_vars

(***************************************************************************)
(* Specification SpecEvict: caller c1 creates f2 through a handle capped   *)
(* at 0 or 1 in the collection that holds f1, while caller c2 updates and  *)
(* deletes f1 through an uncapped handle of the same collection.           *)
(***************************************************************************)
EvictCallers == {"c1", "c2"}

InitEvict ==
    /\ files = InitFiles
    /\ locks = {}
    /\ calls = [c \in Callers |-> Idle]
    /\ queue = OneQueue
    /\ \E max \in {0, 1} :
        handle = [c \in Callers |-> IF c = "c1" THEN max ELSE NoCap]
    /\ usedUuids = {}
    /\ now = 0
    /\ ncalls = 0
    /\ dir = {"A"}
    /\ born = <<>>
    /\ baseDirectory = "root"
    /\ singleton = OneStorage

NextEvict ==
    \/ CallCreateCapped("c1", WithId("f2", DA))
    \/ CallDelete("c2", "f1")
    \/ CallUpdate("c2", "f1", DA)
    \/ \E c \in EvictCallers :
        \/ StartTask(c)
        \/ Readdir(c)
        \/ StatAll(c)
        \/ Mkdir(c)
        \/ Access(c)
        \/ WriteFile(c)
        \/ WriteFileFails(c)
        \/ Unlink(c)
        \/ Release(c)

SpecEvict == InitEvict /\ [][NextEvict]_vars

(***************************************************************************)
(* The errors the calls reject with.  create, update and delete rethrow    *)
(* the error of the filesystem operation that failed (throw e), and the    *)
(* error of fs.mkdir(lockPath) is not caught at all, so the caller gets    *)
(* the error of node:fs with its code, its syscall and its path.           *)
(***************************************************************************)

\* mutant: the error carries its code only
ErrorCodeOnly(kind, op) ==
    [code |-> IF kind \in {"AlreadyLocked", "AlreadyExists"} THEN "EEXIST"
              ELSE IF kind = "NotFound" THEN "ENOENT"
              ELSE IF kind = "FsFailure" THEN "ENOSPC"
              ELSE "-",
     syscall |-> "-", path |-> "-"]

\* the error thrown by the step that fails in a call of operation op: mkdir
\* of the marker (EEXIST), writeFile with flag 'wx' (EEXIST), access or stat
\* of the document file (ENOENT), a write the platform refuses, or the
\* Error made by update's guard
ErrorOf(kind, op) ==
    IF kind = "AlreadyLocked"
    THEN [code |-> "EEXIST", syscall |-> "mkdir", path |-> ".lock"]
    ELSE IF kind = "AlreadyExists"
    THEN [code |-> "EEXIST", syscall |-> "open", path |-> ".json"]
    ELSE IF kind = "NotFound"
    THEN [code |-> "ENOENT",
          syscall |-> IF op \in {"update", "delete"} THEN "access" ELSE "stat",
          path |-> ".json"]
    ELSE IF kind = "FsFailure"
    THEN [code |-> "ENOSPC", syscall |-> "write", path |-> ".json"]
    ELSE [code |-> "-", syscall |-> "-", path |-> "-"]

\* what the caller of a rejected call catches
Thrown(c) == ErrorOf(calls[c].res.kind, calls[c].op)

(***************************************************************************)
(* Specification SpecKinds: the collection holds f1.  Caller c1 creates f2 *)
(* through a handle capped at 1; callers c2 and c3 create, update and      *)
(* delete f1 through uncapped handles.                                     *)
(***************************************************************************)
InitKinds ==
    /\ files = InitFiles
    /\ locks = {}
    /\ calls = [c \in Callers |-> Idle]
    /\ queue = OneQueue
    /\ handle = [c \in Callers |-> IF c = "c1" THEN 1 ELSE NoCap]
    /\ usedUuids = {}
    /\ now = 0
    /\ ncalls = 0
    /\ dir = {"A"}
    /\ born = <<>>
    /\ baseDirectory = "root"
    /\ singleton = OneStorage

NextKinds ==
    \/ CallCreateCapped("c1", WithId("f2", DA))
    \/ CallCreate("c2", WithId("f1", DA))
    \/ CallUpdate("c2", "f1", DA)
    \/ CallDelete("c3", "f1")
    \/ \E c \in Callers :
        \/ StartTask(c)
        \/ Readdir(c)
        \/ StatAll(c)
        \/ Mkdir(c)
        \/ Access(c)
        \/ WriteFile(c)
        \/ WriteFileFails(c)
        \/ Unlink(c)
        \/ Release(c)

SpecKinds == InitKinds /\ [][NextKinds]_vars

(***************************************************************************)
(* filter(subdirectory, options) (lines 465-551).  Numbers and arrays join *)
(* the JavaScript values; an operator object (type Filter) is a tagged     *)
(* function from its keys to their operands, a key being present when its  *)
(* value is not undefined.                                                 *)
(***************************************************************************)
Num(n) == <<"n", n>>
List(seq) == <<"l", seq>>
Obj(f) == <<"o", f>>
NaN == <<"nan">>

IsNum(v) == v[1] = "n"
IsStr(v) == v[1] = "s"

\* Array.isArray(value)
IsArray(v) == v[1] = "l"

\* typeof value === 'object' && value !== null
IsObject(v) == v[1] \in {"o", "l"}

\* if (x) for the values of options.offset and options.limit
Supplied(v) == v # Undefined /\ v # Num(0)

\* the strings of the model in lexicographic order
StrOrder == <<"", "1", "2", "ab", "b", "c", "x", "y", "z">>
StrIndex(s) == CHOOSE i \in DOMAIN StrOrder : StrOrder[i] = s

\* Number(v): of the strings of the model only "", "1" and "2" are numeric;
\* an array converts through its join(",")
ToNumber(v) ==
    IF IsNum(v) THEN v
    ELSE IF IsStr(v)
    THEN (IF v[2] = "" THEN Num(0)
          ELSE IF v[2] = "1" THEN Num(1)
          ELSE IF v[2] = "2" THEN Num(2) ELSE NaN)
    ELSE IF IsArray(v)
    THEN (IF Len(v[2]) = 0 THEN Num(0)
          ELSE IF Len(v[2]) = 1 /\ IsNum(v[2][1]) THEN v[2][1]
          ELSE IF Len(v[2]) = 1 /\ IsStr(v[2][1]) /\ v[2][1][2] \in {"1", "2"}
          THEN (IF v[2][1][2] = "1" THEN Num(1) ELSE Num(2))
          ELSE NaN)
    ELSE NaN

\* a < b of JavaScript: two strings compare as strings, everything else as
\* numbers, and a comparison with NaN is false
JsLt(a, b) ==
    IF IsStr(a) /\ IsStr(b) THEN StrIndex(a[2]) < StrIndex(b[2])
    ELSE LET x == ToNumber(a)
             y == ToNumber(b)
         IN  x # NaN /\ y # NaN /\ x[2] < y[2]

\* mutant: > is computed as >=
JsGtOrEqual(a, b) == JsLt(b, a) \/ (IsNum(a) /\ IsNum(b) /\ a = b)

\* a > b
JsGt(a, b) == JsLt(b, a)

\* a <= b and a >= b
JsLte(a, b) ==
    IF IsStr(a) /\ IsStr(b) THEN StrIndex(a[2]) <= StrIndex(b[2])
    ELSE LET x == ToNumber(a)
             y == ToNumber(b)
         IN  x # NaN /\ y # NaN /\ x[2] <= y[2]
JsGte(a, b) == JsLte(b, a)

\* a === b: equal type and value; two arrays or objects are never the same
\* object
StrictEquals(a, b) == ~IsObject(a) /\ ~IsObject(b) /\ a = b

\* mutant: the members of an array value are not looked at
IncludesWhole(list, v) == FALSE

\* list.includes(v)
Includes(list, v) == \E i \in DOMAIN list : StrictEquals(list[i], v)

\* String(v) for new RegExp(pattern).test(value); the patterns of the model
\* are single letters, which match the strings that hold them
Letters(s) ==
    IF s = "ab" THEN {"a", "b"}
    ELSE IF s \in {"undefined"} THEN {"u", "n", "d", "e", "f", "i"}
    ELSE {s}
RECURSIVE LettersOf(_)
LettersOf(v) ==
    IF IsStr(v) THEN Letters(v[2])
    ELSE IF v = Undefined THEN Letters("undefined")
    ELSE IF IsArray(v)
    THEN UNION {LettersOf(v[2][i]) : i \in DOMAIN v[2]}
         \cup (IF Len(v[2]) > 1 THEN {","} ELSE {})
    ELSE {}
RegExpTest(pattern, v) == pattern \in LettersOf(v)

\* mutant: $lt is looked at before $gte
PriorityLtFirst ==
    <<"$gt", "$lt", "$gte", "$lte", "$regex", "$in", "$nin", "$ne", "$eq",
      "$or", "$and", "$not">>

\* the order of the if statements of evaluateFilter
Priority ==
    <<"$gt", "$gte", "$lt", "$lte", "$regex", "$in", "$nin", "$ne", "$eq",
      "$or", "$and", "$not">>

\* the key whose if statement returns: the first one that is not undefined
FirstKey(f) ==
    LET present == {i \in DOMAIN Priority : Priority[i] \in DOMAIN f}
    IN  IF present = {} THEN "none"
        ELSE Priority[CHOOSE i \in present : \A j \in present : i <= j]

\* mutant: [].some(...) is true
SomeOrEmpty(flags) == flags = <<>> \/ \E i \in DOMAIN flags : flags[i]

\* array.some(...) and array.every(...) over the results of the callback
Some(flags) == \E i \in DOMAIN flags : flags[i]
Every(flags) == \A i \in DOMAIN flags : flags[i]

\* evaluateFilter(value, filter)
RECURSIVE EvaluateFilter(_, _)
EvaluateFilter(value, filter) ==
    LET f == filter[2]
        k == FirstKey(f)
    IN  CASE k = "$gt" -> JsGt(value, f[k])
          [] k = "$gte" -> JsGte(value, f[k])
          [] k = "$lt" -> JsLt(value, f[k])
          [] k = "$lte" -> JsLte(value, f[k])
          [] k = "$regex" -> RegExpTest(f[k][2], value)
          [] k = "$in" ->
                IF IsArray(value)
                THEN Some([i \in DOMAIN f[k][2] |->
                            Includes(value[2], f[k][2][i])])
                ELSE Includes(f[k][2], value)
          [] k = "$nin" ->
                IF IsArray(value)
                THEN ~Some([i \in DOMAIN f[k][2] |->
                            Includes(value[2], f[k][2][i])])
                ELSE ~Includes(f[k][2], value)
          [] k = "$ne" -> ~StrictEquals(value, f[k])
          [] k = "$eq" -> StrictEquals(value, f[k])
          [] k = "$or" ->
                Some([i \in DOMAIN f[k][2] |->
                        EvaluateFilter(value, f[k][2][i])])
          [] k = "$and" ->
                Every([i \in DOMAIN f[k][2] |->
                        EvaluateFilter(value, f[k][2][i])])
          [] k = "$not" -> ~EvaluateFilter(value, f[k])
          [] OTHER -> TRUE

\* mutant: a document passes when one field of where matches
WhereMatchesAny(item, where) ==
    \E key \in DOMAIN where[2] :
        IF IsObject(where[2][key])
        THEN EvaluateFilter(Get(item, key), where[2][key])
        ELSE StrictEquals(Get(item, key), where[2][key])

\* Object.entries(options.where).every(([key, value]) => ...)
WhereMatches(item, where) ==
    \A key \in DOMAIN where[2] :
        IF IsObject(where[2][key])
        THEN EvaluateFilter(Get(item, key), where[2][key])
        ELSE StrictEquals(Get(item, key), where[2][key])

\* an entry read by filter:
\* {_id: file.name.replace('.json', ''), ...data, stats}
FilterDocument(text, name, stats) ==
    Spread(Spread("_id" :> Str(Text(ReplaceFirst(name, ".json"))),
                  JSONParse(text)),
           "stats" :> stats)

\* the sequences that hold every member of a set once
Orders(S) ==
    {p \in [1..Cardinality(S) -> S] : \A i, j \in DOMAIN p : p[i] = p[j] => i = j}

\* seq.slice(n) and seq.slice(0, n) for n >= 0
SliceFrom(seq, n) == SubSeq(seq, n + 1, Len(seq))
SliceTo(seq, n) == SubSeq(seq, 1, IF n <= Len(seq) THEN n ELSE Len(seq))

\* fileContents.filter(...) when options.where is given
Kept(found, where) ==
    IF where = Undefined THEN found
    ELSE SelectSeq(found, LAMBDA item : WhereMatches(item, where))

\* fileContents.sort(...) when options.sort is given, with the comparator
\* aVal > bVal ? 1 : -1 (asc) or aVal < bVal ? 1 : -1 (desc).  The
\* comparator is consistent when the values are pairwise ordered; otherwise
\* (equal or incomparable values) the order is implementation-defined
SortOutcomes(kept, sort) ==
    IF sort = Undefined THEN {kept}
    ELSE LET val(item) == Get(item, sort[2].field)
             ordered ==
                \A i, j \in DOMAIN kept :
                    i # j => (JsGt(val(kept[i]), val(kept[j]))
                                \/ JsLt(val(kept[i]), val(kept[j])))
             perms ==
                {[i \in DOMAIN kept |-> kept[p[i]]] : p \in Orders(DOMAIN kept)}
         IN  IF ~ordered THEN perms
             ELSE {s \in perms :
                    \A i, j \in DOMAIN s :
                        i < j => IF sort[2].order = "asc"
                                 THEN JsLt(val(s[i]), val(s[j]))
                                 ELSE JsGt(val(s[i]), val(s[j]))}

\* slice(options.offset) and slice(0, options.limit), each when its option
\* is truthy
Paged(sorted, offset, limit) ==
    LET dropped == IF Supplied(offset) THEN SliceFrom(sorted, offset[2])
                   ELSE sorted
    IN  IF Supplied(limit) THEN SliceTo(dropped, limit[2]) ELSE dropped

NoQuery ==
    [where |-> Undefined, sort |-> Undefined, offset |-> Undefined,
     limit |-> Undefined]

\* crudInterface.filter: this.filter up to its first await, fs.readdir
CallFilter(c, options) ==
    /\ CanCall(c)
    /\ calls' = [calls EXCEPT ![c] =
          [Idle EXCEPT !.op = "filter", !.pc = "filterReaddir",
                       !.query = options]]
    /\ ncalls' = ncalls + 1
    /\ UNCHANGED <<files, locks, queue, handle, usedUuids, now, dir, born,
                 baseDirectory, singleton>>

\* fs.readdir resolves, in an order the platform chooses, and the entries
\* are filtered
FilterReaddir(c) ==
    /\ calls[c].pc = "filterReaddir"
    /\ \E order \in Orders({e.name : e \in JsonFiles}) :
        calls' = [calls EXCEPT ![c].pc = "filterRead", ![c].order = order]
    /\ UNCHANGED <<files, locks, queue, handle, usedUuids, now, ncalls, dir, born,
                 baseDirectory, singleton>>

\* fs.readFile, JSON.parse and fs.stat of every listed file (Promise.all
\* rejects with ENOENT when one of them is gone), then where, sort, offset
\* and limit
FilterRead(c) ==
    /\ calls[c].pc = "filterRead"
    /\ IF \A i \in DOMAIN calls[c].order : FilesNamed(calls[c].order[i]) # {}
       THEN LET q == calls[c].query
                found ==
                    [i \in DOMAIN calls[c].order |->
                        LET n == calls[c].order[i]
                            f == files[CHOOSE id \in FilesNamed(n) : TRUE]
                        IN  FilterDocument(f.content, n,
                                           Stats(f.birthtime, f.mtime))]
                kept == Kept(found, q.where)
            IN  \E sorted \in SortOutcomes(kept, q.sort) :
                    calls' = [calls EXCEPT ![c].pc = "done",
                                ![c].res = Ok(NoId, NoId, NoFields),
                                ![c].found = found,
                                ![c].kept = kept,
                                ![c].sorted = sorted,
                                ![c].out = Paged(sorted, q.offset, q.limit)]
       ELSE calls' = [calls EXCEPT ![c].pc = "done",
                                   ![c].res = Failure("NotFound")]
    /\ UNCHANGED <<files, locks, queue, handle, usedUuids, now, ncalls, dir, born,
                 baseDirectory, singleton>>

(***************************************************************************)
(* Specification SpecFilter: the collection holds some of three documents  *)
(* stored by create; caller c1 calls filter once, with options drawn from  *)
(* the sets below.  Nothing writes while the call reads.                   *)
(***************************************************************************)
P1 == WithId("f1", ("age" :> Num(1)) @@ ("name" :> Str("ab"))
                    @@ ("tags" :> List(<<Str("x"), Str("y")>>)))
P2 == WithId("f2", ("age" :> Num(2)) @@ ("name" :> Str("b"))
                    @@ ("tags" :> List(<<Str("y")>>)))
P3 == ("name" :> Str("c")) @@ ("tags" :> List(<<>>))

\* the collections: P1 and P2 under their own ids, P3 under a generated one
Collections ==
    {[id \in S |->
        LET d == IF id = "f1" THEN P1 ELSE IF id = "f2" THEN P2 ELSE P3
        IN  FileRec(JSONStringify(d), 0, 0, "create", d)] :
     S \in SUBSET {"f1", "f2", "u1"}}

\* operator objects with one comparison or equality key
Operands == {Num(0), Num(1), Num(2)}
CompareKeys == {"$gt", "$gte", "$lt", "$lte", "$eq", "$ne"}
CompareFilters == {Obj(k :> n) : k \in CompareKeys, n \in Operands}

\* one operand for every key, and the operator objects holding two keys or
\* all of them
OperandOf ==
    [k \in {Priority[i] : i \in DOMAIN Priority} |->
        CASE k = "$gt" -> Num(1)
          [] k = "$gte" -> Num(2)
          [] k = "$lt" -> Num(2)
          [] k = "$lte" -> Num(0)
          [] k = "$regex" -> Str("b")
          [] k = "$in" -> List(<<Num(1)>>)
          [] k = "$nin" -> List(<<Num(1)>>)
          [] k = "$ne" -> Num(2)
          [] k = "$eq" -> Num(2)
          [] k = "$or" -> List(<<Obj("$eq" :> Num(1))>>)
          [] k = "$and" -> List(<<Obj("$gt" :> Num(1))>>)
          [] k = "$not" -> Obj("$eq" :> Num(1))]
ManyKeyFilters ==
    {Obj([k \in K |-> OperandOf[k]]) :
        K \in {K \in SUBSET DOMAIN OperandOf : Cardinality(K) \in {2, 12}}}

\* $in and $nin against an array field and a scalar field
MemberLists ==
    {<<>>, <<Str("x")>>, <<Str("y")>>, <<Str("x"), Str("z")>>,
     <<Str("b"), Str("c")>>, <<Str("z")>>}
MemberFilters == {Obj(k :> List(l)) : k \in {"$in", "$nin"}, l \in MemberLists}

\* $or, $and and $not over sub-conditions, nested twice
SubFilters ==
    {Obj("$gt" :> Num(0)), Obj("$gt" :> Num(1)), Obj("$lt" :> Num(2)),
     Obj("$eq" :> Num(1)),
     Obj("$not" :> Obj("$eq" :> Num(1))),
     Obj("$or" :> List(<<Obj("$eq" :> Num(2)), Obj("$lt" :> Num(1))>>)),
     Obj("$and" :> List(<<>>)), Obj("$or" :> List(<<>>))}
SubLists ==
    {<<>>} \cup {<<a>> : a \in SubFilters}
        \cup {<<a, b>> : a \in SubFilters, b \in SubFilters}
LogicalFilters ==
    {Obj(k :> List(l)) : k \in {"$or", "$and"}, l \in SubLists}
        \cup {Obj("$not" :> a) : a \in SubFilters}
        \cup {Obj(NoFields), Obj("$foo" :> Num(1))}

\* where clauses: one field with an operator object, a scalar, or two fields
WhereInputs ==
    {Obj("age" :> f) : f \in CompareFilters \cup ManyKeyFilters \cup LogicalFilters}
        \cup {Obj(k :> f) : k \in {"tags", "name"}, f \in MemberFilters}
        \cup {Obj(k :> v) : k \in {"age", "name"},
                            v \in {Num(1), Str("1"), Str("b"), Str("ab")}}
        \cup {Obj(("age" :> a) @@ ("name" :> b)) :
                a \in {Num(1), Obj("$gte" :> Num(1)), Obj("$lt" :> Num(2))},
                b \in {Str("ab"), Str("b"), Obj("$regex" :> Str("b"))}}
        \cup {Obj(NoFields)}

\* offset, limit and sort, with and without a where clause
Counts == {Undefined, Num(0), Num(1), Num(2)}
Sorts ==
    {Undefined, Obj([field |-> "age", order |-> "asc"]),
     Obj([field |-> "age", order |-> "desc"]),
     Obj([field |-> "name", order |-> "desc"])}
PageInputs ==
    [where : {Undefined, Obj("age" :> Obj("$gte" :> Num(1)))},
     sort : Sorts, offset : Counts, limit : Counts]

FilterInputs ==
    {[NoQuery EXCEPT !.where = w] : w \in WhereInputs} \cup PageInputs

InitFilter ==
    /\ files \in Collections
    /\ locks = {}
    /\ calls = [c \in Callers |-> Idle]
    /\ queue = OneQueue
    /\ handle = [c \in Callers |-> NoCap]
    /\ usedUuids = {"u1"}
    /\ now = 0
    /\ ncalls = 0
    /\ dir = {"A"}
    /\ born = <<>>
    /\ baseDirectory = "root"
    /\ singleton = OneStorage

NextFilter ==
    \/ \E q \in FilterInputs : calls["c1"].pc = "idle" /\ CallFilter("c1", q)
    \/ FilterReaddir("c1")
    \/ FilterRead("c1")

SpecFilter == InitFilter /\ [][NextFilter]_vars

(***************************************************************************)
(* getStats() (lines 129-179).                                             *)
(***************************************************************************)

\* date.toLocaleString('en-GB', {day, month, year, hour, minute, second}):
\* the time down to the second
ToLocaleString(ms) == ms \div 1000

\* an entry of fileStats without its stats:
\* {_id: fileData._id || file.name.replace('.json', ''), createdAt, updatedAt}
FileMetadata(text, name, birthtime, mtime) ==
    LET fileData == JSONParse(text)
    IN  [_id |-> IF Truthy(Get(fileData, "_id")) THEN Get(fileData, "_id")
                 ELSE Str(Text(ReplaceFirst(name, ".json"))),
         createdAt |-> ToLocaleString(birthtime),
         updatedAt |-> ToLocaleString(mtime)]

\* [...seq].sort((a, b) => key[a] - key[b]): the sort is stable
SortedBy(seq, key) ==
    CHOOSE s \in {[i \in DOMAIN seq |-> seq[p[i]]] : p \in Orders(DOMAIN seq)} :
        \A i, j \in DOMAIN s :
            i < j => \/ key[s[i]] < key[s[j]]
                     \/ /\ key[s[i]] = key[s[j]]
                        /\ \E a, b \in DOMAIN seq :
                            a < b /\ seq[a] = s[i] /\ seq[b] = s[j]

\* crudInterface.getStats up to its first await, fs.readdir
CallGetStats(c) ==
    /\ CanCall(c)
    /\ calls' = [calls EXCEPT ![c] =
          [Idle EXCEPT !.op = "getStats", !.pc = "statsReaddir"]]
    /\ ncalls' = ncalls + 1
    /\ UNCHANGED <<files, locks, queue, handle, usedUuids, now, dir, born,
                 baseDirectory, singleton>>

\* fs.readdir resolves, in an order the platform chooses, and the entries
\* are filtered
StatsReaddir(c) ==
    /\ calls[c].pc = "statsReaddir"
    /\ \E order \in Orders({e.name : e \in JsonFiles}) :
        calls' = [calls EXCEPT ![c].pc = "statsRead", ![c].order = order]
    /\ UNCHANGED <<files, locks, queue, handle, usedUuids, now, ncalls, dir, born,
                 baseDirectory, singleton>>

\* fs.stat, fs.readFile and JSON.parse of every listed file (Promise.all
\* rejects with ENOENT when one of them is gone), the two sorts and the
\* result
StatsRead(c) ==
    /\ calls[c].pc = "statsRead"
    /\ IF \A i \in DOMAIN calls[c].order : FilesNamed(calls[c].order[i]) # {}
       THEN LET fileOf(n) == files[CHOOSE id \in FilesNamed(n) : TRUE]
                names == {calls[c].order[i] : i \in DOMAIN calls[c].order}
                birth == [n \in names |-> fileOf(n).birthtime]
                modified == [n \in names |-> fileOf(n).mtime]
                meta(n) == FileMetadata(fileOf(n).content, n, birth[n],
                                        modified[n])
                createdAsc == SortedBy(calls[c].order, birth)
                updatedAsc == SortedBy(calls[c].order, modified)
            IN  calls' = [calls EXCEPT ![c].pc = "done",
                    ![c].res = Ok(NoId, NoId, NoFields),
                    ![c].report =
                        [amount |-> Len(calls[c].order),
                         createdAsc |-> [i \in DOMAIN createdAsc |->
                                            meta(createdAsc[i])],
                         updatedAsc |-> [i \in DOMAIN updatedAsc |->
                                            meta(updatedAsc[i])]]]
       ELSE calls' = [calls EXCEPT ![c].pc = "done",
                                   ![c].res = Failure("NotFound")]
    /\ UNCHANGED <<files, locks, queue, handle, usedUuids, now, ncalls, dir, born,
                 baseDirectory, singleton>>

(***************************************************************************)
(* Specification SpecList: the collection holds f1.  Caller c1 lists it    *)
(* with all(), filter() and getStats() while caller c2 creates, updates    *)
(* and deletes documents.                                                  *)
(***************************************************************************)
ListCreateInputs == {WithId("x.json.y", DA), WithId("", DA)}
ListUpdateIds == {"f1", "x.json.y"}

NextList ==
    \/ CallAll("c1")
    \/ CallFilter("c1", NoQuery)
    \/ CallGetStats("c1")
    \/ AllReaddir("c1")
    \/ AllRead("c1")
    \/ FilterReaddir("c1")
    \/ FilterRead("c1")
    \/ StatsReaddir("c1")
    \/ StatsRead("c1")
    \/ \E d \in ListCreateInputs : CallCreate("c2", d)
    \/ \E id \in ListUpdateIds : CallUpdate("c2", id, DB)
    \/ CallDelete("c2", "f1")
    \/ Mkdir("c2")
    \/ Access("c2")
    \/ WriteFile("c2")
    \/ WriteFileFails("c2")
    \/ Unlink("c2")
    \/ Release("c2")
    \/ Tick

SpecList == Init /\ [][NextList]_vars

(***************************************************************************)
(* Specification SpecPolicy: a new process resolves the collection A,      *)
(* whose directory holds f1, three times: caller c1 first, with            *)
(* maxFileAmount 1; then caller c2 with maxFileAmount 2 and caller c3 with *)
(* the name alone.  Each caller creates documents through the handle its   *)
(* own connect returned.                                                   *)
(***************************************************************************)
\* connect has not returned a handle to the caller yet
NoHandle == -2

\* the options each caller resolves the collection with
PolicyOptions ==
    [c \in Callers |->
        IF c = "c1" THEN CapOptions(Str("A"), 1)
        ELSE IF c = "c2" THEN CapOptions(Str("A"), 2)
        ELSE StringOptions(Str("A"))]

PolicyInputs == {WithId("f2", DA), WithId("f3", DA)}

InitPolicy ==
    /\ files = InitFiles
    /\ locks = {}
    /\ calls = [c \in Callers |-> Idle]
    /\ queue = <<>>
    /\ handle = [c \in Callers |-> NoHandle]
    /\ usedUuids = {}
    /\ now = 0
    /\ ncalls = 0
    /\ dir = {"A"}
    /\ born = <<>>
    /\ baseDirectory = "root"
    /\ singleton = OneStorage

NextPolicy ==
    \E c \in Callers :
        \/ /\ handle[c] = NoHandle
           /\ c = "c1" \/ "A" \in DOMAIN queue
           /\ Connect(c, PolicyOptions[c])
        \/ \E d \in PolicyInputs : CallCreate(c, d)
        \/ /\ handle[c] # NoHandle
           /\ \E d \in PolicyInputs : CallCreateCapped(c, d)
        \/ StartTask(c)
        \/ DirAccess(c)
        \/ Readdir(c)
        \/ StatAll(c)
        \/ Mkdir(c)
        \/ Access(c)
        \/ WriteFile(c)
        \/ WriteFileFails(c)
        \/ Unlink(c)
        \/ Release(c)

SpecPolicy == InitPolicy /\ [][NextPolicy]_vars

(***************************************************************************)
(* The removal of the marker can itself be refused by the platform.        *)
(* fs.rm(lockPath, {recursive: true}) is awaited in the try block after    *)
(* the primary step and again in the catch block, before `throw e`, with   *)
(* no try of its own: when it rejects in the try block the catch block     *)
(* runs, and when it rejects in the catch block its error leaves the call  *)
(* in place of e.                                                          *)
(***************************************************************************)

\* fs.rm(lockPath) rejects for a reason of the platform (EACCES, EBUSY, EIO)
\* and the marker stays
ReleaseFails(c) ==
    /\ calls[c].pc = "release"
    /\ IF calls[c].err = "-"
       THEN /\ calls' = [calls EXCEPT ![c].err = "RmFailure"]
            /\ UNCHANGED queue
       ELSE EndOp(c, Failure("RmFailure"))
    /\ UNCHANGED <<files, locks, handle, usedUuids, now, ncalls, dir, born,
                 baseDirectory, singleton>>

(***************************************************************************)
(* Specification SpecRelease: two callers of the uncapped collection that  *)
(* holds f1 create, update and delete f1 and f2 on a platform that can     *)
(* refuse a write and the removal of a marker.                             *)
(***************************************************************************)
ReleaseCallers == {"c1", "c2"}
ReleaseIds == {"f1", "f2"}
ReleaseUpdates == {DA, WithId("f1", DA)}

NextRelease ==
    \E c \in ReleaseCallers :
        \/ \E id \in ReleaseIds : CallCreate(c, WithId(id, DA))
        \/ \E id \in ReleaseIds, d \in ReleaseUpdates : CallUpdate(c, id, d)
        \/ \E id \in ReleaseIds : CallDelete(c, id)
        \/ Mkdir(c)
        \/ Access(c)
        \/ WriteFile(c)
        \/ WriteFileFails(c)
        \/ Unlink(c)
        \/ Release(c)
        \/ ReleaseFails(c)

SpecRelease == Init /\ [][NextRelease]_vars

(***************************************************************************)
(* getInstance and resetInstance (lines 7-28).  The map subdirectoryQueues *)
(* is a field of the JSONStorage object, and a handle's calls use the map  *)
(* of the object whose connect returned it.                                *)
(***************************************************************************)
MaxStorages == 2

\* mutant: getInstance constructs a JSONStorage on every call
InstanceIgnored(instance) == TRUE

\* !JSONStorage.instance
InstanceMissing(instance) == instance = 0

\* JSONStorage.getInstance({directory: "root"}) by a caller that holds no
\* storage: the object JSONStorage.instance refers to, constructed (with
\* an empty map of queues) when there is none
GetInstance(c) ==
    /\ singleton.held[c] = 0
    /\ IF InstanceMissing(singleton.instance)
       THEN /\ singleton.made < MaxStorages
            /\ singleton' = [singleton EXCEPT !.made = @ + 1,
                                !.instance = singleton.made + 1,
                                !.held[c] = singleton.made + 1]
       ELSE singleton' = [singleton EXCEPT !.held[c] = singleton.instance]
    /\ UNCHANGED <<files, locks, calls, queue, handle, usedUuids, now, ncalls,
                 dir, born, baseDirectory>>

\* JSONStorage.resetInstance(): JSONStorage.instance = null; the object and
\* the handles made through it stay as they are
ResetInstance ==
    /\ singleton.instance # 0
    /\ singleton' = [singleton EXCEPT !.instance = 0]
    /\ UNCHANGED <<files, locks, calls, queue, handle, usedUuids, now, ncalls,
                 dir, born, baseDirectory>>

(***************************************************************************)
(* Specification SpecInstance: caller c1 holds a handle of collection A,   *)
(* capped at 1, made through the first JSONStorage of the process; A holds *)
(* f1.  Callers c2 and c3 call getInstance and connect to A with the same  *)
(* cap, and any caller may call resetInstance; all create documents.       *)
(***************************************************************************)
InstanceInputs ==
    [c \in Callers |->
        IF c = "c1" THEN WithId("f2", DA)
        ELSE IF c = "c2" THEN WithId("f3", DA) ELSE WithId("f4", DA)]

InitInstance ==
    /\ files = InitFiles
    /\ locks = {}
    /\ calls = [c \in Callers |-> Idle]
    /\ queue = OneQueue
    /\ handle = [c \in Callers |-> IF c = "c1" THEN 1 ELSE NoHandle]
    /\ usedUuids = {}
    /\ now = 0
    /\ ncalls = 0
    /\ dir = {"A"}
    /\ born = <<>>
    /\ baseDirectory = "root"
    /\ singleton = [instance |-> 1, made |-> 1,
                    held |-> [c \in Callers |-> IF c = "c1" THEN 1 ELSE 0]]

NextInstance ==
    \/ ResetInstance
    \/ \E c \in Callers :
        \/ GetInstance(c)
        \/ /\ singleton.held[c] # 0
           /\ handle[c] = NoHandle
           /\ Connect(c, CapOptions(Str("A"), 1))
        \/ /\ handle[c] # NoHandle
           /\ CallCreateCapped(c, InstanceInputs[c])
        \/ StartTask(c)
        \/ DirAccess(c)
        \/ Readdir(c)
        \/ StatAll(c)
        \/ Mkdir(c)
        \/ Access(c)
        \/ WriteFile(c)
        \/ WriteFileFails(c)
        \/ Unlink(c)
        \/ Release(c)

SpecInstance == InitInstance /\ [][NextInstance]_vars

(***************************************************************************)
(* Specification SpecInsert: the collection holds f1.  Caller c1 creates   *)
(* f2 through a handle capped at 1 or 2 while caller c2 creates f1 and f2  *)
(* through an uncapped handle; no caller deletes.                          *)
(***************************************************************************)
InsertCallers == {"c1", "c2"}

InitInsert ==
    /\ files = InitFiles
    /\ locks = {}
    /\ calls = [c \in Callers |-> Idle]
    /\ queue = OneQueue
    /\ \E max \in {1, 2} :
        handle = [c \in Callers |-> IF c = "c1" THEN max ELSE NoCap]
    /\ usedUuids = {}
    /\ now = 0
    /\ ncalls = 0
    /\ dir = {"A"}
    /\ born = <<>>
    /\ baseDirectory = "root"
    /\ singleton = OneStorage

NextInsert ==
    \/ CallCreateCapped("c1", WithId("f2", DA))
    \/ \E id \in {"f1", "f2"} : CallCreate("c2", WithId(id, DB))
    \/ \E c \in InsertCallers :
        \/ StartTask(c)
        \/ Readdir(c)
        \/ StatAll(c)
        \/ Mkdir(c)
        \/ Access(c)
        \/ WriteFile(c)
        \/ WriteFileFails(c)
        \/ Unlink(c)
        \/ Release(c)
    \/ Tick

SpecInsert == InitInsert /\ [][NextInsert]_vars

(***************************************************************************)
(* Specification SpecRace: the calls of a race have all been issued and    *)
(* none has been awaited, so each call's fs.mkdir(lockPath) is pending and *)
(* the filesystem serves the pending operations in any order.  The races:  *)
(* updates of f1 by two or three callers; delete(f1) by c1 and             *)
(* update(f1, ...) by c2; creates of f2 by two or three callers.           *)
(***************************************************************************)
PlainInputs == {DA, DS}

UpdateRaces ==
    {r \in [Callers -> {Idle} \cup {BeginUpdate("f1", d) : d \in PlainInputs}] :
        Cardinality({c \in Callers : r[c] # Idle}) >= 2}

DeleteUpdateRaces ==
    {[c \in Callers |->
        IF c = "c1" THEN BeginDelete(Idle, "f1")
        ELSE IF c = "c2" THEN BeginUpdate("f1", d) ELSE Idle] : d \in PlainInputs}

\* two or three creates of the id f2, which is not stored, each with
\* content of its own choice
CreateRaces ==
    {r \in [Callers -> {Idle} \cup
                {BeginCreate(Idle, WithId("f2", d), NoId) : d \in {DA, DB}}] :
        Cardinality({c \in Callers : r[c] # Idle}) >= 2}

InitRace ==
    /\ files = InitFiles
    /\ locks = {}
    /\ calls \in UpdateRaces \cup DeleteUpdateRaces \cup CreateRaces
    /\ queue = OneQueue
    /\ handle = [c \in Callers |-> NoCap]
    /\ usedUuids = {}
    /\ now = 0
    /\ ncalls = 0
    /\ dir = {"A"}
    /\ born = <<>>
    /\ baseDirectory = "root"
    /\ singleton = OneStorage

NextRace ==
    \E c \in Callers :
        \/ Mkdir(c)
        \/ Access(c)
        \/ WriteFile(c)
        \/ WriteFileFails(c)
        \/ Unlink(c)
        \/ Release(c)

SpecRace == InitRace /\ [][NextRace]_vars

(***************************************************************************)
(* Properties of the locking protocol.                                     *)
(***************************************************************************)

\* caller c is between its successful fs.mkdir(lockPath) and its fs.rm(lockPath)
InCS(c) == calls[c].pc \in {"access", "write", "unlink", "release"}

Settled(c) == calls[c].pc = "done"

Outcome(c) == calls[c].res.kind

\* C1: at every instant and for every id, at most one create/update/delete
\* call is between its successful acquire of <id>.lock and its release.
C1_MutualExclusion ==
    \A c, d \in Callers :
        (c # d /\ InCS(c) /\ InCS(d)) => calls[c].id # calls[d].id

\* a call is inside the critical section of an id on which another call has
\* just been refused the marker
C1_Witness ==
    \E c, d \in Callers :
        /\ c # d
        /\ InCS(c)
        /\ Settled(d)
        /\ calls[d].id = calls[c].id
        /\ Outcome(d) = "AlreadyLocked"

\* C3: every mutating call removes its own marker before it settles, on
\* success and on every failure path: a marker exists only while a call on
\* its id is inside the critical section.
C3_NoStaleMarker ==
    \A id \in locks : \E c \in Callers : InCS(c) /\ calls[c].id = id

\* a mutating call has settled with a failure of its primary step and its
\* id carries no marker
C3_Witness ==
    \E c \in Callers :
        /\ Settled(c)
        /\ calls[c].op \in {"create", "update", "delete"}
        /\ Outcome(c) \in {"AlreadyExists", "NotFound", "FsFailure"}
        /\ calls[c].id \notin locks

(***************************************************************************)
(* Properties of read after create and after update.                       *)
(***************************************************************************)

IdentityAndStats == {"_id", "stats"}

\* doc is the fields of F with their values, plus the identity id and the
\* metadata stats
IsFieldsPlus(doc, F, id, stats) ==
    /\ DOMAIN doc = DOMAIN F \cup IdentityAndStats
    /\ \A k \in DOMAIN F : doc[k] = F[k]
    /\ doc["_id"] = Str(id)
    /\ doc["stats"] = stats

\* caller c has read the text that operation op wrote from the field map F
HasRead(c, op) ==
    /\ calls[c].op = "read"
    /\ Settled(c)
    /\ Outcome(c) = "ok"
    /\ calls[c].seen = op

\* C9 as stated: for every field map F without an identity field,
\* read(create(F).id) returns exactly the fields of F with their values,
\* plus the assigned identity and the filesystem metadata.
C9_RoundTripAnyFields ==
    \A c \in Callers :
        (HasRead(c, "create") /\ "_id" \notin DOMAIN calls[c].seenInput)
            => IsFieldsPlus(calls[c].res.doc, calls[c].seenInput,
                            calls[c].id, calls[c].meta)

\* C9 amended: the round trip holds for every field map F with neither an
\* identity field nor a field named stats.
C9_RoundTrip ==
    \A c \in Callers :
        (HasRead(c, "create")
            /\ DOMAIN calls[c].seenInput \cap IdentityAndStats = {})
            => IsFieldsPlus(calls[c].res.doc, calls[c].seenInput,
                            calls[c].id, calls[c].meta)

\* a read has returned the document a create without identity field stored
\* under a generated id
C9_Witness ==
    \E c \in Callers :
        /\ HasRead(c, "create")
        /\ calls[c].seenInput = DA
        /\ calls[c].id \in Uuids

\* update(id, G) has written and not yet released the marker
HasUpdated(c) ==
    calls[c].op = "update" /\ calls[c].pc = "release" /\ calls[c].err = "-"

\* the stored text of id holds exactly the fields of G
StoredExactly(id, G) == Exists(id) /\ JSONParse(files[id].content) = G

UpdateReplaces ==
    \A c \in Callers :
        /\ HasUpdated(c) => StoredExactly(calls[c].id, calls[c].data)
        /\ (calls[c].op = "update" /\ Settled(c) /\ Outcome(c) = "ok")
                => calls[c].res.id = calls[c].id

Racers == {c \in Callers : calls[c].op # "-"}

AllSettled == \A c \in Racers : Settled(c)

\* no call of the race met a failure of the platform
NoFsFailure == \A c \in Racers : Outcome(c) # "FsFailure" /\ calls[c].err # "FsFailure"

UpdateRace == \A c \in Racers : calls[c].op = "update"

Winners == {c \in Racers : Settled(c) /\ Outcome(c) = "ok"}

DeleteUpdateRace == calls["c1"].op = "delete" /\ calls["c2"].op = "update"

Cap == handle["c1"]

Count == Cardinality(DOMAIN files)

\* C4: in a collection that starts empty and is capped at M >= 0, the
\* number of stored documents never exceeds M in any reachable state of
\* any sequence of creates through the capped handle.
C4_CountWithinCap == Count <= Cap

\* a third document has been created in a collection capped at 2, which
\* holds 2 documents
C4_Witness == Cap = 2 /\ Count = 2 /\ Len(born) = 3

Quiet == \A c \in Callers : ~InFlight(c)

Distinct(seq) == \A i, j \in DOMAIN seq : i # j => seq[i] # seq[j]

\* the last n elements of seq
LastOf(seq, n) == {seq[i] : i \in {j \in DOMAIN seq : j > Len(seq) - n}}

Min(a, b) == IF a <= b THEN a ELSE b

\* C5: in a collection capped at M >= 1 that starts empty, after n creates
\* with pairwise distinct ids have settled, the stored set is exactly the
\* min(n, M) most recently created ids.
C5_MostRecentSurvive ==
    (Cap >= 1 /\ Quiet /\ Len(born) = ncalls /\ Distinct(born))
        => DOMAIN files = LastOf(born, Min(ncalls, Cap))

\* the queue of the collection the callers share
CollQueue == queue["A"]

\* a task of the queue is past its start and has not settled
Running(c) == calls[c].task # "-" /\ calls[c].pc \notin {"idle", "queued", "done"}

\* C6: the tasks handed to the collection's queue (connect and capped
\* create) run one at a time in submission order: a later-submitted task
\* has not started while an earlier one has not settled, and a create's
\* result is that of the caller's own create.
C6_QueueOrder ==
    /\ \A c, d \in Callers : (Running(c) /\ Running(d)) => c = d
    /\ \A c \in Callers : Running(c) => (CollQueue # <<>> /\ Head(CollQueue) = c)
    /\ \A i \in DOMAIN CollQueue : i > 1 => calls[CollQueue[i]].pc = "queued"
    /\ \A c \in Callers :
        (calls[c].op = "create" /\ Settled(c) /\ Outcome(c) = "ok")
            => calls[c].res.id = ResolveId(calls[c].data, calls[c].uuid)

\* a capped create is evicting while a later-submitted task waits
C6_Witness ==
    \E c, d \in Callers :
        /\ Running(c) /\ calls[c].op = "delete"
        /\ calls[d].pc = "queued"
        /\ CollQueue = <<c, d>>

\* the number of times id was created
TimesBorn(id) == Cardinality({i \in DOMAIN born : born[i] = id})

CreateSettled(c) == calls[c].op = "create" /\ Settled(c)

CreateWrites(c) ==
    calls[c].op = "create" /\ calls[c].pc = "write" /\ calls'[c].pc = "release"

C11_IdentityFieldRejected ==
    /\ \A c \in Callers :
        (calls[c].op = "update" /\ "_id" \in DOMAIN calls[c].data)
            => /\ ~InCS(c)
               /\ Settled(c) => Outcome(c) = "InvalidArgument"
    /\ \A id \in DOMAIN files :
        files[id].by = "update" => "_id" \notin DOMAIN files[id].input

\* the step of caller c in which fs.unlink of its delete succeeds
DeleteUnlinks(c) ==
    /\ calls[c].op = "delete" /\ calls[c].pc = "unlink"
    /\ calls'[c].pc = "release" /\ calls'[c].err = "-"

\* the names of the document files
StoredNames == {FileName(id) : id \in DOMAIN files}

\* C12: after a successful delete(x) the document x does not exist, read(x)
\* fails with NotFound and all() returns no entry for the file of x, until
\* a later create of x succeeds.  As steps: the unlink of a successful
\* delete leaves x absent; an absent x becomes stored only by the write of
\* a create of x, which then succeeds; a read that finds x absent fails
\* with NotFound; all() lists, and returns entries for, stored files only.
C12_DeletedStaysAbsent ==
    [][ /\ \A c \in Callers :
            DeleteUnlinks(c) => calls[c].id \notin DOMAIN files'
        /\ \A id \in KnownIds :
            (id \notin DOMAIN files /\ id \in DOMAIN files')
                => \E c \in Callers :
                     /\ CreateWrites(c)
                     /\ calls[c].id = id
                     /\ calls'[c].err = "-"
        /\ \A c \in Callers :
            (calls[c].pc \in {"stat", "readFile"} /\ calls'[c] # calls[c]
                    /\ ~Exists(calls[c].id))
                => calls'[c].res.kind = "NotFound"
        /\ \A c \in Callers :
            (calls[c].pc = "allReaddir" /\ calls'[c].pc = "allRead")
                => calls'[c].entries = StoredNames
        /\ \A c \in Callers :
            (calls[c].pc = "allRead" /\ calls'[c].res.kind = "ok")
                => calls[c].entries \subseteq StoredNames
      ]_vars

\* delete(f1) has succeeded, a read of f1 has failed with NotFound and an
\* all() has returned without an entry for f1
C12_Witness ==
    /\ ~Exists("f1")
    /\ \E c \in Callers :
        calls[c].op = "delete" /\ Settled(c) /\ Outcome(c) = "ok"
    /\ \E c \in Callers :
        \/ calls[c].op = "read" /\ Settled(c) /\ Outcome(c) = "NotFound"
        \/ /\ calls[c].op = "all" /\ Settled(c) /\ Outcome(c) = "ok"
           /\ FileName("f1") \notin calls[c].entries

\* the ids whose document file was listed by the all() of caller c
IdsListed(c) == {id \in KnownIds : FileName(id) \in calls[c].entries}

\* the ids of the entries all() returned to caller c
IdsReturned(c) == {d["_id"] : d \in calls[c].docs}

\* C13: all() returns exactly one entry per stored document and none for
\* lock markers, also while mutations hold markers: the ids returned are
\* the ids that had a stored document file when the directory was listed,
\* each entry carrying the id under which the document was created.
C13_AllReturnsStoredIds ==
    \A c \in Callers :
        (calls[c].op = "all" /\ Settled(c) /\ Outcome(c) = "ok")
            => /\ IdsReturned(c) = {Str(id) : id \in IdsListed(c)}
               /\ Cardinality(calls[c].docs) = Cardinality(calls[c].entries)
               /\ \A n \in calls[c].entries : EndsWith(n, ".json")

(***************************************************************************)
(* Properties of connect (SpecConnect).                                    *)
(***************************************************************************)

\* the task of connect is between its start and its return: the
\* check-then-create of the collection's directory
InDirCheck(c) == calls[c].pc \in {"dirAccess", "dirMkdir"}

ConnectedOk(c) == calls[c].op = "connect" /\ Settled(c) /\ Outcome(c) = "ok"

\* C14: resolving the same (root, name) concurrently or repeatedly is
\* idempotent: two resolutions of a collection never execute the
\* check-then-create of its directory at the same time, a directory is
\* created only while it is missing (so exactly once), and every caller
\* receives a handle of the collection, whose directory and queue exist.
C14_ConnectIdempotent ==
    /\ \A c, d \in Callers :
        (InDirCheck(c) /\ InDirCheck(d) /\ calls[c].coll = calls[d].coll)
            => c = d
    /\ \A c \in Callers : calls[c].pc = "dirMkdir" => calls[c].coll \notin dir
    /\ \A c \in Callers :
        ConnectedOk(c)
            => /\ calls[c].coll \in dir
               /\ QueueKey(calls[c].coll) \in DOMAIN queue

\* one resolution of A has returned its handle, a second one is checking the
\* directory the first one made, and a third one waits in the queue
C14_Witness ==
    \E c, d, e \in Callers :
        /\ ConnectedOk(c) /\ calls[c].coll = "A"
        /\ calls[d].pc = "dirAccess" /\ calls[d].coll = "A"
        /\ calls[e].pc = "queued" /\ calls[e].coll = "A"
        /\ "A" \in dir

\* caller c has called connect with an empty or a missing name
EmptyName(c) ==
    /\ calls[c].op = "connect"
    /\ \/ OptionsMissing(calls[c].options)
       \/ ~Truthy(SubdirectoryOf(calls[c].options))

\* no queue is registered and no directory exists for an empty or a missing
\* name
NoEmptyNameEffect ==
    \A n \in {"", "undefined"} : QueueKey(n) \notin DOMAIN queue /\ n \notin dir

\* C15 as stated: resolving a collection with an empty or missing name fails
\* with 'Subdirectory is required' and has no effect: no directory is
\* created and no queue is registered for it.
C15_EmptyNameRequired ==
    /\ \A c \in Callers :
        EmptyName(c)
            => Settled(c) /\ Outcome(c) = "Subdirectory is required"
    /\ NoEmptyNameEffect

\* C15 amended: the call fails with 'Subdirectory is required', or, when
\* the root of the storage is empty and options were given, with 'Directory
\* is not set'; it has no effect.
C15_EmptyNameRejected ==
    /\ \A c \in Callers :
        EmptyName(c)
            => /\ Settled(c)
               /\ Outcome(c) =
                    IF baseDirectory = "" /\ ~OptionsMissing(calls[c].options)
                    THEN "Directory is not set"
                    ELSE "Subdirectory is required"
    /\ NoEmptyNameEffect

\* connect({directory: ''}) has failed with 'Subdirectory is required' in a
\* storage in which another caller has resolved the collection A
C15_Witness ==
    \E c, d \in Callers :
        /\ calls[c].options = ObjectOptions(Str(""))
        /\ Settled(c) /\ Outcome(c) = "Subdirectory is required"
        /\ ConnectedOk(d) /\ calls[d].coll = "A"
        /\ DOMAIN queue = {"A"}

\* a task of caller d is in the queue of the collection `name` or running
TaskOf(d, name) == calls[d].task # "-" /\ InFlight(d) /\ calls[d].coll = name

\* C16: queues of different collections never block each other: a queued
\* task can start as soon as no other task of its own collection is pending
\* or running, whatever is pending or running in the queues of the other
\* collections.
C16_QueuesIndependent ==
    \A c \in Callers :
        (calls[c].pc = "queued"
            /\ \A d \in Callers \ {c} : ~TaskOf(d, calls[c].coll))
            => MayStart(c)

\* a task of B runs while a task of A is running and another one is
\* waiting behind it
C16_Witness ==
    \E c, d, e \in Callers :
        /\ Running(c) /\ calls[c].coll = "A"
        /\ Running(d) /\ calls[d].coll = "B"
        /\ calls[e].pc = "queued" /\ calls[e].coll = "A"

(***************************************************************************)
(* Properties of failing tasks and of eviction.                            *)
(***************************************************************************)

InsertOutcomes == {"ok", "AlreadyExists", "AlreadyLocked", "FsFailure"}

\* the call of caller c is a capped create that found the collection at its
\* limit
AtLimitCreate(c) ==
    calls[c].task = "capped" /\ ~ZeroCap(handle[c]) /\ calls[c].listed # {}

\* C18 as stated: eviction is best-effort: when a chosen victim cannot be
\* deleted, whatever the reason (its marker is held, or it was removed by a
\* concurrent delete at any point after the listing), the capped create
\* still performs its insert and returns the insert's outcome.
C18_InsertAlwaysPerformed ==
    \A c \in Callers :
        (AtLimitCreate(c) /\ Settled(c)) => Outcome(c) \in InsertOutcomes

\* C18 amended: once the metadata of the listed files has been read, the
\* failure of a victim's delete (marker held, or victim already removed) is
\* swallowed: the loop goes on to the next victim or to the insert, and the
\* call settles only out of its insert, with the insert's outcome.  A
\* listed file removed before its metadata is read makes the call fail
\* without an insert.
C18_EvictionBestEffort ==
    [][\A c \in Callers :
        /\ (calls[c].task = "capped" /\ calls[c].op = "delete"
                /\ calls'[c] # calls[c])
            => /\ calls'[c].pc # "done"
               /\ calls'[c].op \in {"delete", "create"}
               /\ calls'[c].op = "create"
                    => /\ calls'[c].pc = "mkdir"
                       /\ calls'[c].id =
                            ResolveId(calls[c].data, calls[c].uuid)
        /\ (AtLimitCreate(c) /\ ~Settled(c) /\ calls'[c].pc = "done"
                /\ calls[c].pc # "statAll")
            => /\ calls[c].op = "create"
               /\ calls[c].pc \in {"mkdir", "release"}
               /\ calls'[c].res.kind \in InsertOutcomes
      ]_vars

\* the delete of the victim f1 was refused or found nothing, and the capped
\* create has inserted f2: the collection capped at 1 holds f1 and f2, or
\* holds f2 after c2 deleted f1 itself
C18_Witness ==
    /\ handle["c1"] = 1
    /\ calls["c1"].listed = {"f1"}
    /\ Settled("c1") /\ Outcome("c1") = "ok"
    /\ Exists("f2")
    /\ \/ Exists("f1")
       \/ calls["c2"].op = "delete" /\ Settled("c2") /\ Outcome("c2") = "ok"

\* C19: with cap 0, create returns an (id, path) pair and writes nothing:
\* the call settles as its task starts, no document file and no marker is
\* created, and the collection's contents are those of before the call.
C19_ZeroCapWritesNothing ==
    \A c \in Callers :
        (calls[c].task = "capped" /\ handle[c] = 0)
            => /\ calls[c].pc \in {"queued", "done"}
               /\ Settled(c) => (Outcome(c) = "ok" /\ calls[c].res.id = calls[c].id)
               /\ ~Exists(calls[c].id)
               /\ calls[c].id \notin locks
               /\ born = <<>>

\* a create through the handle capped at 0 has returned and the collection
\* still holds f1 as stored before
C19_Witness ==
    /\ handle["c1"] = 0
    /\ calls["c1"].task = "capped" /\ Settled("c1") /\ Outcome("c1") = "ok"
    /\ files = InitFiles
    /\ locks = {}

\* C20: for every create call that returns successfully, on any handle and
\* whether the id was supplied or generated, the returned path names the
\* returned id, and for an explicit identity field the returned id equals
\* it.
C20_PathNamesReturnedId ==
    \A c \in Callers :
        (CreateSettled(c) /\ Outcome(c) = "ok")
            => /\ calls[c].res.pathId = calls[c].res.id
               /\ Truthy(Get(calls[c].data, "_id"))
                    => calls[c].res.id = Get(calls[c].data, "_id")[2]

(***************************************************************************)
(* Properties of the failures the calls report.                            *)
(***************************************************************************)

\* caller c holds the marker of its id
Held(c) == calls[c].pc \in {"write", "access", "unlink", "release"}

\* this step settles the create, update or delete of caller c with a failure
\* other than a refusal of the platform
FailingStep(c) ==
    /\ calls[c].op \in {"create", "update", "delete"}
    /\ calls[c].pc \notin {"idle", "done"}
    /\ calls'[c].pc = "done"
    /\ calls'[c].res.kind \notin {"ok", "FsFailure"}

\* two callers that catch the same error have failed in the same way
KindsDiscriminable ==
    \A c, d \in Callers :
        (Settled(c) /\ Settled(d) /\ Outcome(c) # "ok" /\ Outcome(d) # "ok"
            /\ Thrown(c) = Thrown(d))
            => Outcome(c) = Outcome(d)

\* C21 as stated: a failed create/update/delete reports AlreadyLocked exactly
\* when it could not acquire the marker, AlreadyExists exactly when the
\* marker was acquired and the document file already existed, NotFound
\* exactly when the marker was acquired and the document was absent; the
\* error caught tells AlreadyLocked from AlreadyExists.
C21_KindsExact ==
    /\ [][\A c \in Callers : FailingStep(c) =>
            /\ calls'[c].res.kind = "AlreadyLocked" <=> ~Held(c)
            /\ calls'[c].res.kind = "AlreadyExists"
                <=> (Held(c) /\ calls[c].op = "create" /\ Exists(calls[c].id))
            /\ calls'[c].res.kind = "NotFound"
                <=> (Held(c) /\ calls[c].op \in {"update", "delete"}
                        /\ ~Exists(calls[c].id))
       ]_vars
    /\ []KindsDiscriminable

\* C21 amended: as stated, except that a create through a capped handle also
\* reports NotFound, without having acquired a marker, when a listed file is
\* gone before its metadata is read; AlreadyLocked is reported exactly when
\* fs.mkdir of the marker fails.
C21_KindsPreserved ==
    /\ [][\A c \in Callers : FailingStep(c) =>
            /\ calls'[c].res.kind = "AlreadyLocked"
                <=> (~Held(c) /\ calls[c].pc = "mkdir")
            /\ calls'[c].res.kind = "AlreadyExists"
                <=> (Held(c) /\ calls[c].op = "create" /\ Exists(calls[c].id))
            /\ calls'[c].res.kind = "NotFound"
                <=> \/ Held(c) /\ calls[c].op \in {"update", "delete"}
                        /\ ~Exists(calls[c].id)
                    \/ ~Held(c) /\ calls[c].pc = "statAll"
                        /\ calls[c].task = "capped"
                        /\ \E id \in calls[c].listed : ~Exists(id)
       ]_vars
    /\ []KindsDiscriminable

\* create(f1) of c2 was refused with AlreadyExists while it held the marker
\* that made delete(f1) of c3 fail with AlreadyLocked
C21_Witness ==
    /\ calls["c2"].op = "create" /\ Settled("c2")
    /\ Outcome("c2") = "AlreadyExists"
    /\ calls["c3"].op = "delete" /\ Settled("c3")
    /\ Outcome("c3") = "AlreadyLocked"
    /\ Thrown("c2").code = Thrown("c3").code

(***************************************************************************)
(* Properties of filter.                                                   *)
(***************************************************************************)

\* the elements of a sequence
Range(seq) == {seq[i] : i \in DOMAIN seq}

\* caller c's filter call has returned
Filtered(c) == calls[c].op = "filter" /\ Settled(c) /\ Outcome(c) = "ok"

\* the where clause of c's filter call is one field with an operator object
\* whose keys are exactly K
WhereKeys(c, field, K) ==
    /\ calls[c].query.where # Undefined
    /\ DOMAIN calls[c].query.where[2] = {field}
    /\ calls[c].query.where[2][field][1] = "o"
    /\ DOMAIN calls[c].query.where[2][field][2] = K

\* the operand of key k in that operator object
OperandAt(c, field, k) == calls[c].query.where[2][field][2][k]

\* field key of document d matches condition cond: a scalar by equality of
\* type and value, an operator object by the matcher
FieldMatches(d, key, cond) ==
    IF cond[1] = "o" THEN EvaluateFilter(Get(d, key), cond)
    ELSE key \in DOMAIN d /\ d[key] = cond

\* C22: a document is returned iff every field listed in where matches its
\* condition; with no where clause every document is returned; a query
\* without sort, offset and limit returns the documents kept.
C22_WhereIsConjunction ==
    \A c \in Callers : Filtered(c) =>
        LET q == calls[c].query
        IN  /\ Range(calls[c].kept) =
                IF q.where = Undefined THEN Range(calls[c].found)
                ELSE {d \in Range(calls[c].found) :
                        \A key \in DOMAIN q.where[2] :
                            FieldMatches(d, key, q.where[2][key])}
            /\ Len(calls[c].kept) = Cardinality(Range(calls[c].kept))
            /\ (q.sort = Undefined /\ q.offset = Undefined /\ q.limit = Undefined)
                => calls[c].out = calls[c].kept

\* a where clause over two fields kept a document and dropped another one
\* that matches one of the two fields
C22_Witness ==
    \E c \in Callers :
        /\ Filtered(c)
        /\ calls[c].query.where # Undefined
        /\ Cardinality(DOMAIN calls[c].query.where[2]) = 2
        /\ Len(calls[c].kept) = 1
        /\ \E d \in Range(calls[c].found) \ Range(calls[c].kept) :
            \E key \in DOMAIN calls[c].query.where[2] :
                FieldMatches(d, key, calls[c].query.where[2][key])

\* the priority of the operator keys as the specification lists it
StatedPriority ==
    <<"$gt", "$gte", "$lt", "$lte", "$regex", "$in", "$nin", "$ne", "$eq",
      "$or", "$and", "$not">>

\* the operator object holding only the first key of f in the stated
\* priority
HighestOnly(f) ==
    LET present == {i \in DOMAIN StatedPriority : StatedPriority[i] \in DOMAIN f}
        k == StatedPriority[CHOOSE i \in present : \A j \in present : i <= j]
    IN  k :> f[k]

Reference(k, v, n) ==
    CASE k = "$gt" -> v > n
      [] k = "$gte" -> v >= n
      [] k = "$lt" -> v < n
      [] k = "$lte" -> v <= n
      [] k = "$eq" -> v = n
      [] k = "$ne" -> v # n

\* the documents of a sequence whose age is a number
Numeric(seq) == {d \in Range(seq) : IsNum(Get(d, "age"))}

\* C24: over the documents with a numeric field, a single comparison or
\* equality operator returns exactly the reference set, and
\* {$and: [{$gt: a}, {$lt: b}]} exactly the documents with a < value < b.
C24_ComparisonsExact ==
    \A c \in Callers : Filtered(c) =>
        /\ \A k \in CompareKeys :
            WhereKeys(c, "age", {k}) =>
                Numeric(calls[c].kept) =
                    {d \in Numeric(calls[c].found) :
                        Reference(k, d["age"][2], OperandAt(c, "age", k)[2])}
        /\ \A a, b \in {n[2] : n \in Operands} :
            (/\ WhereKeys(c, "age", {"$and"})
             /\ OperandAt(c, "age", "$and") =
                    List(<<Obj("$gt" :> Num(a)), Obj("$lt" :> Num(b))>>))
                => Numeric(calls[c].kept) =
                    {d \in Numeric(calls[c].found) :
                        a < d["age"][2] /\ d["age"][2] < b}

\* {$gt: 1} over the documents of ages 1 and 2 returned the one of age 2
C24_Witness ==
    \E c \in Callers :
        /\ Filtered(c)
        /\ WhereKeys(c, "age", {"$gt"})
        /\ OperandAt(c, "age", "$gt") = Num(1)
        /\ {Get(d, "age") : d \in Range(calls[c].found)} = {Num(1), Num(2)}
        /\ {Get(d, "age") : d \in Range(calls[c].kept)} = {Num(2)}

\* the reference meaning of $in on a value: one of the operator values is a
\* member of a list value, or a scalar value is a member of the operator
\* list
MemberOf(v, list) ==
    IF IsArray(v) THEN Range(v[2]) \cap Range(list) # {}
    ELSE v \in Range(list)

\* C25: $in matches a list value iff an operator value is a member of it
\* and a scalar value iff it is a member of the operator list; $nin matches
\* iff $in does not.
C25_Membership ==
    \A c \in Callers : Filtered(c) =>
        \A field \in {"tags", "name"} :
            /\ WhereKeys(c, field, {"$in"}) =>
                Range(calls[c].kept) =
                    {d \in Range(calls[c].found) :
                        MemberOf(Get(d, field), OperandAt(c, field, "$in")[2])}
            /\ WhereKeys(c, field, {"$nin"}) =>
                Range(calls[c].kept) =
                    {d \in Range(calls[c].found) :
                        ~MemberOf(Get(d, field), OperandAt(c, field, "$nin")[2])}

\* {$in: [x, z]} on the list field returned the document tagged x and y and
\* not the one tagged y only
C25_Witness ==
    \E c \in Callers :
        /\ Filtered(c)
        /\ WhereKeys(c, "tags", {"$in"})
        /\ OperandAt(c, "tags", "$in") = List(<<Str("x"), Str("z")>>)
        /\ Len(calls[c].found) = 3
        /\ {Get(d, "_id") : d \in Range(calls[c].kept)} = {Str("f1")}

\* C26: $or matches iff a sub-condition matches (never for an empty list),
\* $and iff every sub-condition matches (always for an empty list), $not
\* iff its sub-condition does not match, the sub-conditions being matched
\* against the same value; an operator object with no recognised key
\* matches every value.
C26_Combinators ==
    \A c \in Callers : Filtered(c) =>
        LET keptIs(P(_)) ==
                Range(calls[c].kept) =
                    {d \in Range(calls[c].found) : P(Get(d, "age"))}
            subs(k) == OperandAt(c, "age", k)[2]
            anyOf(v) == \E i \in DOMAIN subs("$or") :
                            EvaluateFilter(v, subs("$or")[i])
            allOf(v) == \A i \in DOMAIN subs("$and") :
                            EvaluateFilter(v, subs("$and")[i])
            notOf(v) == ~EvaluateFilter(v, OperandAt(c, "age", "$not"))
            any(v) == TRUE
        IN  /\ WhereKeys(c, "age", {"$or"}) =>
                /\ keptIs(anyOf)
                /\ subs("$or") = <<>> => calls[c].kept = <<>>
            /\ WhereKeys(c, "age", {"$and"}) =>
                /\ keptIs(allOf)
                /\ subs("$and") = <<>> => calls[c].kept = calls[c].found
            /\ WhereKeys(c, "age", {"$not"}) => keptIs(notOf)
            /\ (WhereKeys(c, "age", {}) \/ WhereKeys(c, "age", {"$foo"}))
                => keptIs(any)

\* {$not: {$or: [{$eq: 2}, {$lt: 1}]}} returned the document of age 1 and
\* not the one of age 2
C26_Witness ==
    \E c \in Callers :
        /\ Filtered(c)
        /\ WhereKeys(c, "age", {"$not"})
        /\ DOMAIN OperandAt(c, "age", "$not")[2] = {"$or"}
        /\ {Get(d, "age") : d \in Range(calls[c].found)} = {Num(1), Num(2)}
        /\ {Get(d, "age") : d \in Range(calls[c].kept)} = {Num(1)}

\* the first n elements of a sequence dropped, and a sequence cut to its
\* first n elements
Drop(seq, n) == [i \in 1..(IF n <= Len(seq) THEN Len(seq) - n ELSE 0) |-> seq[i + n]]
Take(seq, n) == [i \in 1..(IF n <= Len(seq) THEN n ELSE Len(seq)) |-> seq[i]]

\* C27: offset and limit are applied after filtering and sorting, offset
\* first: the result is the filtered and sorted sequence with its first
\* offset elements dropped (when offset is supplied) and then cut to its
\* first limit elements (when limit is supplied), so a supplied limit L
\* yields at most L documents.
C27_OffsetThenLimit ==
    \A c \in Callers : Filtered(c) =>
        LET q == calls[c].query
            dropped == IF q.offset = Undefined THEN calls[c].sorted
                       ELSE Drop(calls[c].sorted, q.offset[2])
        IN  /\ calls[c].out =
                IF q.limit = Undefined THEN dropped ELSE Take(dropped, q.limit[2])
            /\ q.limit # Undefined => Len(calls[c].out) <= q.limit[2]

(***************************************************************************)
(* Properties of the listings: all(), filter() and getStats().             *)
(***************************************************************************)

\* the id of the document whose file has this name: the name without its
\* .json suffix
IdOfName(name) == CHOOSE id \in KnownIds : FileName(id) = name

\* the stored documents a listing has listed
Listed(order) == {id \in DOMAIN files : FileName(id) \in Range(order)}

\* C28: filter with no where, sort, limit or offset returns the same
\* documents as all(), field for field, and every document it returns
\* carries the filename-derived id, also when the stored content holds an
\* identity field of its own.
C28_FilterEqualsAll ==
    [][\A c \in Callers :
        (/\ calls[c].pc = "filterRead"
         /\ calls'[c].pc = "done" /\ calls'[c].res.kind = "ok"
         /\ calls[c].query = NoQuery)
            => /\ Range(calls'[c].out) =
                    {AllDocument(files[id].content, FileName(id),
                                 Stats(files[id].birthtime, files[id].mtime)) :
                        id \in Listed(calls[c].order)}
               /\ \A i \in DOMAIN calls'[c].out :
                    calls'[c].out[i]["_id"] = Str(IdOfName(calls[c].order[i]))
      ]_vars

\* C29: getStats reports amount equal to the number of stored documents,
\* not counting markers, and createdAsc and updatedAsc each list every
\* stored document once, with the document's id, in non-decreasing creation
\* time and non-decreasing modification time.
C29_StatsReport ==
    [][\A c \in Callers :
        /\ (calls[c].pc = "statsReaddir" /\ calls'[c].pc = "statsRead")
            => Len(calls'[c].order) = Cardinality(DOMAIN files)
        /\ (/\ calls[c].pc = "statsRead"
            /\ calls'[c].pc = "done" /\ calls'[c].res.kind = "ok")
            => LET r == calls'[c].report
                   ids == {Str(id) : id \in Listed(calls[c].order)}
                   once(list) ==
                        /\ Len(list) = Cardinality(ids)
                        /\ {list[i]._id : i \in DOMAIN list} = ids
                   ascending(list, time(_)) ==
                        \A i, j \in DOMAIN list :
                            i < j => time(list[i]._id[2]) <= time(list[j]._id[2])
                   created(id) == files[id].birthtime
                   updated(id) == files[id].mtime
               IN  /\ r.amount = Cardinality(ids)
                   /\ once(r.createdAsc)
                   /\ once(r.updatedAsc)
                   /\ ascending(r.createdAsc, created)
                   /\ ascending(r.updatedAsc, updated)
      ]_vars

OwnCap(c) == IF c = "c1" THEN 1 ELSE IF c = "c2" THEN 2 ELSE NoCap

\* the maxFileAmount of the first resolution of A (caller c1's)
FirstCap == OwnCap("c1")

\* a create of caller c is under way or has settled (inside the queued task
\* the call is at its eviction deletes first)
Creating(c) == calls[c].op \in {"create", "delete"}

PrimaryFailures == {"AlreadyExists", "NotFound", "FsFailure"}

\* C32 as stated: the release of the marker never suppresses the primary
\* failure: a create, update or delete whose primary step failed settles
\* with that failure, also when the removal of the marker fails.
C32_PrimaryFailureReported ==
    \A c \in Callers :
        (/\ calls[c].op \in {"create", "update", "delete"}
         /\ calls[c].pc = "done"
         /\ calls[c].err \in PrimaryFailures)
        => calls[c].res.kind = calls[c].err

(***************************************************************************)
(* C33: a refused acquire                                                  *)
(***************************************************************************)
\* this step is the fs.mkdir(lockPath) of caller c finding the marker there
LosesAcquire(c) ==
    /\ calls[c].pc = "mkdir"
    /\ calls[c].id \in locks
    /\ calls'[c] # calls[c]

\* C33: acquire is fail-fast and the loser has no effect: a create, update
\* or delete whose fs.mkdir finds the marker fails with AlreadyLocked in that
\* very step (inside the queued task the refused delete of a victim is
\* dropped and the task goes on to its next operation), it reads and writes
\* no document, and it leaves the marker and the call that owns it as they
\* are; a marker goes away only by the release step of the call holding it.
C33_LoserHasNoEffect ==
    [][/\ \A c \in Callers :
            LosesAcquire(c) =>
                /\ files' = files
                /\ locks' = locks
                /\ IF calls[c].task = "capped" /\ calls[c].op = "delete"
                   THEN calls'[c].pc = "mkdir"
                   ELSE /\ calls'[c].pc = "done"
                        /\ calls'[c].res.kind = "AlreadyLocked"
                /\ \E d \in Callers \ {c} :
                    /\ InCS(d) /\ calls[d].id = calls[c].id
                    /\ calls'[d] = calls[d]
       /\ \A id \in locks \ locks' :
            \E d \in Callers :
                /\ calls[d].pc = "release" /\ calls[d].id = id
                /\ calls'[d].pc # "release"]_vars

\* the delete of f1 by c3 has been refused while the update of c2, which
\* holds f1.lock, has not written yet: f1 is as it was stored
C33_Witness ==
    /\ calls["c3"].op = "delete" /\ calls["c3"].pc = "done"
    /\ calls["c3"].res.kind = "AlreadyLocked"
    /\ calls["c2"].op = "update" /\ calls["c2"].pc = "write"
    /\ "f1" \in locks
    /\ files = InitFiles

(***************************************************************************)
(* C34: the queue of a collection across getInstance and resetInstance     *)
(***************************************************************************)
\* the capped create of caller c is at its count, evict or insert steps
Inserting(c) == calls[c].task = "capped" /\ Running(c)

CreateRefused(c) ==
    /\ calls[c].op = "create" /\ calls[c].pc = "done"
    /\ calls[c].res.kind \in {"AlreadyLocked", "AlreadyExists"}

\* C35 as stated: a create that fails with AlreadyLocked or AlreadyExists,
\* on a capped or an uncapped handle, leaves the collection unchanged: no
\* document is removed on behalf of the insert that did not happen.  (No
\* caller deletes here, so every document the call listed is still stored.)
C35_FailedCreateRemovesNothing ==
    \A c \in Callers : CreateRefused(c) => calls[c].listed \subseteq DOMAIN files

\* C35 amended: the insert of a create that fails with AlreadyLocked or
\* AlreadyExists writes nothing: the only step of a create that changes a
\* document is a write that succeeds, it adds the document of its own id and
\* changes no other, and the call then returns successfully; the refused
\* mkdir, the refused write and the release change no document.  On an
\* uncapped handle, whose create removes nothing, a failed create therefore
\* leaves the collection unchanged; on a capped handle the victims deleted
\* before the insert stay deleted.
C35_FailedInsertWritesNothing ==
    [][\A c \in Callers :
        (calls[c].op = "create" /\ calls'[c] # calls[c]) =>
            /\ files' # files =>
                /\ calls[c].pc = "write" /\ calls'[c].err = "-"
                /\ DOMAIN files' = DOMAIN files \cup {calls[c].id}
                /\ \A id \in DOMAIN files : files'[id] = files[id]
            /\ calls'[c].pc = "done" =>
                (calls'[c].res.kind = "ok") = (calls[c].err = "-" /\ calls[c].pc = "release")
            /\ calls[c].task # "capped" => DOMAIN files \subseteq DOMAIN files'
      ]_vars

\* the capped create of f2 has been refused after its eviction step removed
\* f1, and an uncapped create has been refused as well
C35_Witness ==
    /\ CreateRefused("c1") /\ calls["c1"].listed = {"f1", "f2"}
    /\ "f1" \notin DOMAIN files
    /\ CreateRefused("c2")

(***************************************************************************)
(* C36: an update or a delete that fails                                   *)
(***************************************************************************)
\* this step settles the update or delete of caller c with failure kind
Refuses(c, kind) ==
    /\ calls'[c] # calls[c]
    /\ calls'[c].op \in {"update", "delete"}
    /\ calls'[c].pc = "done"
    /\ calls'[c].res.kind = kind

\* C36: an update or delete that fails with InvalidArgument, AlreadyLocked
\* or NotFound leaves every document unchanged: the only steps of an update
\* or delete that change a document are the write and the unlink that
\* succeed, on a document that exists (update never creates one), and a call
\* that made such a step does not fail in one of these ways; when the call
\* fails with NotFound its document is absent and its marker is gone.
C36_FailedUpdateDeleteChangesNothing ==
    [][\A c \in Callers :
        /\ (/\ calls[c].op \in {"update", "delete"}
            /\ calls'[c] # calls[c]
            /\ files' # files)
           => /\ calls[c].pc \in {"write", "unlink"}
              /\ calls'[c].err = "-"
              /\ Exists(calls[c].id)
              /\ \A id \in DOMAIN files \ {calls[c].id} :
                    id \in DOMAIN files' /\ files'[id] = files[id]
              /\ DOMAIN files' \subseteq DOMAIN files
        /\ \A kind \in {"InvalidArgument", "AlreadyLocked", "NotFound"} :
            Refuses(c, kind) =>
                /\ files' = files
                /\ calls[c].pc = "release" => calls[c].err = kind
                /\ kind = "NotFound" =>
                    /\ calls'[c].id \notin DOMAIN files'
                    /\ calls'[c].id \notin locks'
      ]_vars

\* the update of f2, which is not stored, has failed with NotFound while the
\* delete of f2 by the other caller was refused the marker: f2 is absent and
\* carries no marker
C36_Witness ==
    /\ calls["c1"].op = "update" /\ calls["c1"].id = "f2"
    /\ calls["c1"].pc = "done" /\ calls["c1"].res.kind = "NotFound"
    /\ calls["c2"].op = "delete" /\ calls["c2"].id = "f2"
    /\ calls["c2"].pc = "done" /\ calls["c2"].res.kind = "AlreadyLocked"
    /\ "f2" \notin DOMAIN files /\ "f2" \notin locks

(***************************************************************************)
(* C37: the identity field of the stored documents                         *)
(***************************************************************************)
\* the stored identity field of document f, when it is truthy, is the id of
\* its file
IdentityIsFileId(f) ==
    LET fileData == JSONParse(files[f].content)
    IN  Truthy(Get(fileData, "_id")) => Get(fileData, "_id") = Str(f)

\* C37: after any create, update and delete calls every stored document
\* whose content holds a truthy identity field has it equal to the id of its
\* file, so that the id eviction passes to delete for a file and the id
\* getStats reports for it are always the id of that file.
C37_IdentityMatchesFile ==
    \A f \in DOMAIN files :
        /\ IdentityIsFileId(f)
        /\ VictimId(f) = f
        /\ FileMetadata(files[f].content, FileName(f),
                        files[f].birthtime, files[f].mtime)._id = Str(f)

(***************************************************************************)
(* C38: the mutations of one id are linearized by its marker               *)
(***************************************************************************)
\* this step changes the document of id: it appears, vanishes or is rewritten
Changes(id) ==
    \/ (id \in DOMAIN files) # (id \in DOMAIN files')
    \/ id \in DOMAIN files /\ id \in DOMAIN files' /\ files'[id] # files[id]

\* this step is the release of the marker of id by caller c
Releases(c, id) ==
    /\ calls[c].pc = "release" /\ calls[c].id = id
    /\ calls'[c] # calls[c]

\* C38: the mutations of one id are linearized by its marker.  The document
\* of an id changes only in the primary step of the call that holds the
\* marker of that id, and only when that step succeeds; when a call whose
\* primary step succeeded releases the marker, the id has no document after
\* a delete and the document holding exactly the content passed to the call
\* after a create or update, and the call returns successfully.  Hence
\* whenever no call holds the marker of an id, the id is as the last
\* successful mutation (in the order of the acquisitions) left it.
C38_Linearized ==
    [][\A id \in KnownIds :
        /\ Changes(id) =>
            \E c \in Callers :
                /\ id \in locks /\ calls[c].id = id
                /\ calls[c].pc \in {"write", "unlink"}
                /\ calls'[c].pc = "release" /\ calls'[c].err = "-"
                /\ \A d \in Callers \ {c} : InCS(d) => calls[d].id # id
        /\ \A c \in Callers :
            Releases(c, id) =>
                /\ id \notin locks'
                /\ calls[c].err = "-" =>
                    /\ IF calls[c].op = "delete" THEN id \notin DOMAIN files'
                       ELSE /\ id \in DOMAIN files'
                            /\ files'[id].content = JSONStringify(calls[c].data)
                    /\ calls'[c].pc = "done" => calls'[c].res.kind = "ok"
      ]_vars

\* f1 has been deleted by c3 and created anew by c2 with other content, and
\* no call holds its marker
C38_Witness ==
    /\ calls["c3"].op = "delete" /\ calls["c3"].pc = "done"
    /\ calls["c3"].res.kind = "ok"
    /\ calls["c2"].op = "create" /\ calls["c2"].pc = "done"
    /\ calls["c2"].res.kind = "ok"
    /\ "f1" \notin locks
    /\ "f1" \in DOMAIN files
    /\ files["f1"].content = JSONStringify(WithId("f1", DA))

(***************************************************************************)
(* C39: every call settles                                                 *)
(***************************************************************************)
\* C39: provided every filesystem step completes, every call settles with
\* success or a definite failure: a capped create handed to the queue is
\* run and settles, and once its task has started it never waits on the
\* queue again, its deletes and its create being the plain operations.
C39_EveryCallSettles ==
    /\ \A c \in CapCallers :
        InFlight(c) ~> (Settled(c) /\ Outcome(c) # "-")
    /\ [][\A c \in CapCallers :
            (calls[c].task = "capped" /\ Running(c)) =>
                /\ calls'[c].pc # "queued"
                /\ \A n \in DOMAIN queue' : Len(queue'[n]) <= Len(queue[n])
                       \/ calls'[c] = calls[c]]_vars

\* the capped creates of two callers have settled, one of them having
\* evicted a document it listed and inserted its own
C39_Witness ==
    \E c, d \in CapCallers :
        /\ c # d
        /\ calls[c].task = "capped" /\ Settled(c) /\ Outcome(c) = "ok"
        /\ calls[c].listed # {}
        /\ ~(calls[c].listed \subseteq DOMAIN files)
        /\ Exists(calls[c].id)
        /\ calls[d].task = "capped" /\ Settled(d)
        /\ ~ZeroCap(handle[c])

(***************************************************************************)
(* C40: concurrent creates of one id                                       *)
(***************************************************************************)
CreateRace == \A c \in Racers : calls[c].op = "create"

\* C40: of N >= 2 uncapped creates issued concurrently with the same
\* explicit id, which is not stored, exactly one succeeds under every
\* interleaving and each of the others fails with AlreadyLocked or
\* AlreadyExists; once all have settled the document holds the content of
\* the winner and no marker remains.
C40_OneCreateWins ==
    (CreateRace /\ AllSettled /\ NoFsFailure) =>
        /\ Cardinality(Winners) = 1
        /\ \A c \in Racers \ Winners :
            Outcome(c) \in {"AlreadyLocked", "AlreadyExists"}
        /\ Exists("f2")
        /\ \A c \in Winners :
            files["f2"].content = JSONStringify(calls[c].data)
        /\ locks = {}

\* three concurrent creates of f2 have settled: the winner's content is
\* stored, one loser was refused the marker and one came after the winner's
\* release and was refused the write
C40_Witness ==
    /\ CreateRace /\ AllSettled
    /\ Racers = Callers
    /\ \E c, d, e \in Callers :
        /\ Outcome(c) = "ok" /\ calls[c].data = WithId("f2", DB)
        /\ Outcome(d) = "AlreadyLocked" /\ calls[d].data = WithId("f2", DA)
        /\ Outcome(e) = "AlreadyExists"
    /\ Exists("f2")
    /\ files["f2"].content = JSONStringify(WithId("f2", DB))
    /\ locks = {}
====
